---------------------------- MODULE Spec2Model ----------------------------
(***************************************************************************)
(* Natal chart computation engine (Saucymoo/astrology-api).                *)
(*                                                                         *)
(* Units.  Python floats are modelled in exact fixed point:                *)
(*   - clock times and UTC offsets are whole minutes (9.5 h = 570);        *)
(*   - geographic longitude is counted in 1/GeoScale of a degree;          *)
(*   - ecliptic longitude and degree-in-sign are counted in 1/U of a       *)
(*     degree, U = 3600 * SubSec (SubSec units per arc second).            *)
(* Text is a sequence of one-character strings, so that lower() and the    *)
(* substring test `in` are computed, not assumed.                          *)
(***************************************************************************)
EXTENDS Integers, Sequences, FiniteSets, TLC

VARIABLES
    tz,     \* the last call of TimezoneHandler.calculate_accurate_utc_time
    pos,    \* the last position interpretation / DMS formatting
    chart,  \* the last generate_chart call of a chart service
    now,    \* the wall clock that datetime.now() reads
    runs,   \* the generate_chart calls made so far with the same providers
    api,    \* main.py: the service's house_system and the last HTTP exchange
    loop,   \* the event loop of the server process and its request tasks
    services  \* the house_system of a MockAstrologyService and an AstrologyService

vars == <<tz, pos, chart, now, runs, api, loop, services>>

Idle == [phase |-> "idle"]

(***************************************************************************)
(* Bounds of the model                                                     *)
(***************************************************************************)
GeoScale == 4     \* geographic longitude resolution: units per degree
SubSec == 2       \* ecliptic resolution: units per arc second

U == 3600 * SubSec            \* ecliptic units per degree

(***************************************************************************)
(* Generic helpers (Python semantics)                                      *)
(***************************************************************************)
Abs(x) == IF x < 0 THEN -x ELSE x

\* dict.update / {**a, **b}: the right operand wins
Merge(a, b) ==
    [k \in (DOMAIN a) \cup (DOMAIN b) |-> IF k \in DOMAIN b THEN b[k] ELSE a[k]]

\* Python 3 round(n/d) for d > 0: to the nearest integer, ties to even
RoundHalfEven(n, d) ==
    LET q == n \div d
        r == n % d
    IN  IF 2 * r < d THEN q
        ELSE IF 2 * r > d THEN q + 1
        ELSE IF q % 2 = 0 THEN q ELSE q + 1

UpperChars == <<"A","B","C","D","E","F","G","H","I","J","K","L","M",
                "N","O","P","Q","R","S","T","U","V","W","X","Y","Z">>
LowerChars == <<"a","b","c","d","e","f","g","h","i","j","k","l","m",
                "n","o","p","q","r","s","t","u","v","w","x","y","z">>

\* str.lower()
Lower(s) ==
    [i \in 1..Len(s) |->
        IF \E k \in 1..26 : UpperChars[k] = s[i]
        THEN LowerChars[CHOOSE k \in 1..26 : UpperChars[k] = s[i]]
        ELSE s[i]]

\* needle in hay
Contains(hay, needle) ==
    \E i \in 0..(Len(hay) - Len(needle)) :
        SubSeq(hay, i + 1, i + Len(needle)) = needle

(***************************************************************************)
(* TimezoneHandler: static tables                                          *)
(***************************************************************************)
RegionKeys ==
    {"adelaide", "sydney", "melbourne", "perth", "darwin",
     "new_york", "los_angeles", "chicago", "denver",
     "london", "paris", "berlin", "moscow",
     "tokyo", "beijing", "mumbai", "dubai"}

AusMonths == {10, 11, 12, 1, 2, 3}
NorthMonths == {3, 4, 5, 6, 7, 8, 9, 10}

\* self.timezone_regions, offsets in minutes
timezone_regions ==
    [k \in RegionKeys |->
        CASE k = "adelaide"    -> [standard_offset |-> 570, dst_months |-> AusMonths, dst_offset |-> 630]
          [] k = "sydney"      -> [standard_offset |-> 600, dst_months |-> AusMonths, dst_offset |-> 660]
          [] k = "melbourne"   -> [standard_offset |-> 600, dst_months |-> AusMonths, dst_offset |-> 660]
          [] k = "perth"       -> [standard_offset |-> 480, dst_months |-> {}, dst_offset |-> 480]
          [] k = "darwin"      -> [standard_offset |-> 570, dst_months |-> {}, dst_offset |-> 570]
          [] k = "new_york"    -> [standard_offset |-> -300, dst_months |-> NorthMonths, dst_offset |-> -240]
          [] k = "los_angeles" -> [standard_offset |-> -480, dst_months |-> NorthMonths, dst_offset |-> -420]
          [] k = "chicago"     -> [standard_offset |-> -360, dst_months |-> NorthMonths, dst_offset |-> -300]
          [] k = "denver"      -> [standard_offset |-> -420, dst_months |-> NorthMonths, dst_offset |-> -360]
          [] k = "london"      -> [standard_offset |-> 0, dst_months |-> NorthMonths, dst_offset |-> 60]
          [] k = "paris"       -> [standard_offset |-> 60, dst_months |-> NorthMonths, dst_offset |-> 120]
          [] k = "berlin"      -> [standard_offset |-> 60, dst_months |-> NorthMonths, dst_offset |-> 120]
          [] k = "moscow"      -> [standard_offset |-> 180, dst_months |-> {}, dst_offset |-> 180]
          [] k = "tokyo"       -> [standard_offset |-> 540, dst_months |-> {}, dst_offset |-> 540]
          [] k = "beijing"     -> [standard_offset |-> 480, dst_months |-> {}, dst_offset |-> 480]
          [] k = "mumbai"      -> [standard_offset |-> 330, dst_months |-> {}, dst_offset |-> 330]
          [] k = "dubai"       -> [standard_offset |-> 240, dst_months |-> {}, dst_offset |-> 240]]

\* self.dst_history: the year DST was introduced, per documented region group
dst_history ==
    [australia |-> [adelaide  |-> [introduced |-> 1971, start_month |-> 10, end_month |-> 3],
                    sydney    |-> [introduced |-> 1971, start_month |-> 10, end_month |-> 3],
                    melbourne |-> [introduced |-> 1971, start_month |-> 10, end_month |-> 3]],
     usa       |-> [introduced |-> 1918, modern_rules |-> 2007, start_month |-> 3, end_month |-> 11],
     europe    |-> [introduced |-> 1980, start_month |-> 3, end_month |-> 10]]

\* city_mappings of _normalize_location_name, in dict (insertion) order
city_mappings ==
    << <<<<"a", "d", "e", "l", "a", "i", "d", "e">>, "adelaide">>,
       <<<<"s", "y", "d", "n", "e", "y">>, "sydney">>,
       <<<<"m", "e", "l", "b", "o", "u", "r", "n", "e">>, "melbourne">>,
       <<<<"p", "e", "r", "t", "h">>, "perth">>,
       <<<<"d", "a", "r", "w", "i", "n">>, "darwin">>,
       <<<<"n", "e", "w", " ", "y", "o", "r", "k">>, "new_york">>,
       <<<<"l", "o", "s", " ", "a", "n", "g", "e", "l", "e", "s">>, "los_angeles">>,
       <<<<"c", "h", "i", "c", "a", "g", "o">>, "chicago">>,
       <<<<"d", "e", "n", "v", "e", "r">>, "denver">>,
       <<<<"l", "o", "n", "d", "o", "n">>, "london">>,
       <<<<"p", "a", "r", "i", "s">>, "paris">>,
       <<<<"b", "e", "r", "l", "i", "n">>, "berlin">>,
       <<<<"m", "o", "s", "c", "o", "w">>, "moscow">>,
       <<<<"t", "o", "k", "y", "o">>, "tokyo">>,
       <<<<"b", "e", "i", "j", "i", "n", "g">>, "beijing">>,
       <<<<"m", "u", "m", "b", "a", "i">>, "mumbai">>,
       <<<<"d", "u", "b", "a", "i">>, "dubai">> >>

S_south_australia == <<"s", "o", "u", "t", "h", " ", "a", "u", "s", "t", "r", "a", "l", "i", "a">>
S_sa == <<"s", "a">>
S_new_south_wales == <<"n", "e", "w", " ", "s", "o", "u", "t", "h", " ", "w", "a", "l", "e", "s">>
S_nsw == <<"n", "s", "w">>
S_victoria == <<"v", "i", "c", "t", "o", "r", "i", "a">>
S_western_australia == <<"w", "e", "s", "t", "e", "r", "n", " ", "a", "u", "s", "t", "r", "a", "l", "i", "a">>
S_wa == <<"w", "a">>

(***************************************************************************)
(* TimezoneHandler: operations                                             *)
(***************************************************************************)
\* _normalize_location_name: first matching city, then the state rules
normalize_location_name(location_name) ==
    IF location_name = <<>> THEN ""
    ELSE LET location_lower == Lower(location_name)
             hits == {i \in 1..Len(city_mappings) :
                         Contains(location_lower, city_mappings[i][1])}
         IN  IF hits # {}
             THEN city_mappings[CHOOSE i \in hits : \A j \in hits : i <= j][2]
             ELSE IF Contains(location_lower, S_south_australia)
                     \/ Contains(location_lower, S_sa) THEN "adelaide"
             ELSE IF Contains(location_lower, S_new_south_wales)
                     \/ Contains(location_lower, S_nsw) THEN "sydney"
             ELSE IF Contains(location_lower, S_victoria) THEN "melbourne"
             ELSE IF Contains(location_lower, S_western_australia)
                     \/ Contains(location_lower, S_wa) THEN "perth"
             ELSE ""

\* A raised Python exception, as a value
Raised(what) == [raised |-> TRUE, error |-> what]

\* a plausible slip: "year > ..." where the code means "from that year on"
dst_rule_strict(location_key, year) ==
    IF location_key \in {"adelaide", "sydney", "melbourne"}
    THEN (IF year > 1971 THEN {1971} ELSE {})
    ELSE IF location_key \in {"new_york", "los_angeles", "chicago", "denver"}
    THEN (IF year > 1918 THEN {1918} ELSE {})
    ELSE IF location_key \in {"london", "paris", "berlin"}
    THEN (IF year > 1980 THEN {1980} ELSE {})
    ELSE {}

\* the year tests of _get_historical_offset: the introduction year of the
\* rule in force for the key in that year as a set, {} for "Unknown"
dst_rule(location_key, year) ==
    IF location_key \in {"adelaide", "sydney", "melbourne"}
    THEN (IF year >= 1971 THEN {1971} ELSE {})
    ELSE IF location_key \in {"new_york", "los_angeles", "chicago", "denver"}
    THEN (IF year >= 1918 THEN {1918} ELSE {})
    ELSE IF location_key \in {"london", "paris", "berlin"}
    THEN (IF year >= 1980 THEN {1980} ELSE {})
    ELSE {}

\* _get_historical_offset: self.timezone_regions[location_key] raises
\* KeyError for an unknown key
get_historical_offset(location_key, year, month) ==
    IF location_key \notin DOMAIN timezone_regions THEN Raised("KeyError")
    ELSE
    LET region_info == timezone_regions[location_key]
        standard_offset == region_info.standard_offset
        dst_offset == region_info.dst_offset
        dst_months == region_info.dst_months
        introduced == dst_rule(location_key, year)
        dst_active == IF introduced = {} THEN FALSE ELSE month \in dst_months
        offset == IF dst_active THEN dst_offset ELSE standard_offset
    IN  [raised |-> FALSE,
         offset |-> offset,
         info |-> [location |-> location_key,
                   method |-> "historical_lookup",
                   standard_offset |-> standard_offset,
                   dst_offset |-> dst_offset,
                   final_offset |-> offset,
                   dst_introduced |-> introduced,
                   dst_active |-> dst_active]]

\* a plausible slip: rounding to the whole hour
rounded_offset_hour(longitude) == 60 * RoundHalfEven(longitude, 15 * GeoScale)

\* round(longitude / 15.0 * 2) / 2 hours, in minutes
rounded_offset(longitude) == 30 * RoundHalfEven(2 * longitude, 15 * GeoScale)

\* _get_timezone_from_coordinates: no lookup is made, the longitude decides
get_timezone_from_coordinates(latitude, longitude, year, month) ==
    [raised |-> FALSE,
     offset |-> rounded_offset(longitude),
     info |-> [method |-> "coordinate_approximation",
               longitude |-> longitude,
               latitude |-> latitude,
               rounded_offset |-> rounded_offset(longitude)]]

\* _approximate_timezone_from_longitude
approximate_timezone_from_longitude(longitude, year, month) ==
    [raised |-> FALSE,
     offset |-> rounded_offset(longitude),
     info |-> [method |-> "longitude_approximation",
               longitude |-> longitude,
               rounded_offset |-> rounded_offset(longitude),
               warning |-> "Fallback method - may be inaccurate"]]

\* a plausible slip: any non-empty label is looked up in the table
determine_timezone_offset_unguarded(year, month, latitude, longitude, location_name) ==
    IF location_name # <<>>
    THEN get_historical_offset(normalize_location_name(location_name), year, month)
    ELSE get_timezone_from_coordinates(latitude, longitude, year, month)

\* _determine_timezone_offset: the table if the key is known, else the
\* coordinates; the longitude fallback only after a failed coordinate lookup
determine_timezone_offset(year, month, latitude, longitude, location_name) ==
    LET location_key == normalize_location_name(location_name)
    IN  IF location_key \in DOMAIN timezone_regions
        THEN get_historical_offset(location_key, year, month)
        ELSE LET coordinate_offset ==
                     get_timezone_from_coordinates(latitude, longitude, year, month)
             IN  IF ~coordinate_offset.raised THEN coordinate_offset
                 ELSE approximate_timezone_from_longitude(longitude, year, month)

\* a plausible slip: the time is wrapped but the day is not moved back
utc_rollover_keeps_day(decimal_local_time, timezone_offset, day) ==
    LET decimal_utc_time == decimal_local_time - timezone_offset
    IN  IF decimal_utc_time < 0
        THEN [utc_time |-> decimal_utc_time + 1440, utc_day |-> day]
        ELSE IF decimal_utc_time >= 1440
        THEN [utc_time |-> decimal_utc_time - 1440, utc_day |-> day + 1]
        ELSE [utc_time |-> decimal_utc_time, utc_day |-> day]

\* the day rollover of calculate_accurate_utc_time (lines 100-109)
utc_rollover(decimal_local_time, timezone_offset, day) ==
    LET decimal_utc_time == decimal_local_time - timezone_offset
    IN  IF decimal_utc_time < 0
        THEN [utc_time |-> decimal_utc_time + 1440, utc_day |-> day - 1]
        ELSE IF decimal_utc_time >= 1440
        THEN [utc_time |-> decimal_utc_time - 1440, utc_day |-> day + 1]
        ELSE [utc_time |-> decimal_utc_time, utc_day |-> day]

\* calculate_accurate_utc_time: any exception inside is re-raised as Exception
calculate_accurate_utc_time(date, time, latitude, longitude, location_name) ==
    LET decimal_local_time == time.hour * 60 + time.minute
        found == determine_timezone_offset(date.year, date.month,
                                           latitude, longitude, location_name)
    IN  IF found.raised THEN Raised("Failed to calculate UTC time")
        ELSE LET r == utc_rollover(decimal_local_time, found.offset, date.day)
             IN  [raised |-> FALSE,
                  decimal_utc_time |-> r.utc_time,
                  timezone_info |->
                      Merge(found.info,
                            [original_day |-> date.day,
                             utc_day |-> r.utc_day,
                             local_time |-> <<time.hour, time.minute>>,
                             utc_time |-> <<r.utc_time \div 60, r.utc_time % 60>>,
                             timezone_offset |-> found.offset])]

(***************************************************************************)
(* Inputs of the resolver                                                  *)
(***************************************************************************)
L_empty == <<>>
L_adelaide == <<"A", "d", "e", "l", "a", "i", "d", "e", ",", " ", "S", "o", "u", "t", "h", " ", "A", "u", "s", "t", "r", "a", "l", "i", "a">>
L_new_york == <<"N", "e", "w", " ", "Y", "o", "r", "k", ",", " ", "N", "Y">>
L_london == <<"L", "o", "n", "d", "o", "n">>
L_perth == <<"P", "e", "r", "t", "h">>
L_brisbane == <<"B", "r", "i", "s", "b", "a", "n", "e">>
L_rome == <<"R", "o", "m", "e">>

Labels ==
    {L_empty, L_adelaide, L_new_york, L_london, L_perth, L_brisbane, L_rome,
     <<"S", "y", "d", "n", "e", "y">>,
     <<"M", "e", "l", "b", "o", "u", "r", "n", "e", ",", " ", "V", "i", "c", "t", "o", "r", "i", "a">>,
     <<"D", "a", "r", "w", "i", "n">>,
     <<"L", "o", "s", " ", "A", "n", "g", "e", "l", "e", "s">>,
     <<"C", "h", "i", "c", "a", "g", "o">>,
     <<"D", "e", "n", "v", "e", "r">>,
     <<"P", "a", "r", "i", "s">>,
     <<"B", "e", "r", "l", "i", "n">>,
     <<"M", "o", "s", "c", "o", "w">>,
     <<"T", "o", "k", "y", "o">>,
     <<"B", "e", "i", "j", "i", "n", "g">>,
     <<"M", "u", "m", "b", "a", "i">>,
     <<"D", "u", "b", "a", "i">>,
     <<"D", "u", "b", "b", "o", " ", "N", "S", "W">>,
     <<"V", "i", "c", "t", "o", "r", "i", "a">>,
     <<"B", "r", "o", "o", "m", "e", " ", "W", "A">>,
     <<"W", "h", "y", "a", "l", "l", "a", " ", "S", "A">>,
     <<"K", "a", "n", "s", "a", "s", " ", "C", "i", "t", "y">>,
     <<"O", "t", "t", "a", "w", "a">>,
     <<"S", "y", "d", "n", "e", "y", " ", "R", "o", "a", "d", ",", " ", "P", "e", "r", "t", "h">>}

UnmatchedLabels == {l \in Labels : normalize_location_name(l) = ""}

Years == {1917, 1918, 1970, 1971, 1974, 1979, 1980, 2020}
Months == 1..12
Hours == 0..23
Minutes == {0, 10, 29, 30, 59}
GeoLongitudes == (-180 * GeoScale)..(180 * GeoScale)      \* models.py: ge=-180, le=180
Lat0 == -35 * GeoScale
LonAdelaide == 139 * GeoScale
LonNewYork == -74 * GeoScale

BirthInput(y, m, d, h, mi, lat, lon, label) ==
    [date |-> [year |-> y, month |-> m, day |-> d],
     time |-> [hour |-> h, minute |-> mi],
     latitude |-> lat, longitude |-> lon, location |-> label]

\* every label and (year, month) at three clock times
DateInputs ==
    {BirthInput(y, m, 15, t[1], t[2], Lat0, LonAdelaide, l) :
        y \in Years, m \in Months, t \in {<<0, 10>>, <<12, 0>>, <<23, 50>>}, l \in Labels}

\* every clock time at a few places and dates
TimeInputs ==
    {BirthInput(d[1], d[2], d[3], h, mi, Lat0, p[2], p[1]) :
        d \in {<<1974, 11, 22>>, <<1960, 6, 1>>, <<2020, 3, 31>>},
        h \in Hours, mi \in Minutes,
        p \in {<<L_adelaide, LonAdelaide>>, <<L_new_york, LonNewYork>>,
               <<L_london, 0>>, <<L_empty, LonAdelaide>>, <<L_rome, LonNewYork>>}}

\* every longitude for the labels that match no region
LongitudeInputs ==
    {BirthInput(1974, 11, 22, t[1], t[2], Lat0, lon, l) :
        t \in {<<0, 10>>, <<12, 0>>, <<23, 50>>}, lon \in GeoLongitudes,
        l \in UnmatchedLabels}

\* the labels of test_dst_transitions
L_adelaide_australia ==
    <<"A", "d", "e", "l", "a", "i", "d", "e", ",", " ", "A", "u", "s", "t", "r", "a", "l", "i", "a">>
L_new_york_usa ==
    <<"N", "e", "w", " ", "Y", "o", "r", "k", ",", " ", "N", "Y", ",", " ", "U", "S", "A">>

\* dst_tests of test_dst_transitions: date, time, location and the expected
\* offset, with the place's longitude and the kind of transition on that date
dst_tests ==
    {[date |-> [year |-> 1974, month |-> 10, day |-> 27], time |-> <<2, 30>>,
      location |-> L_adelaide_australia, longitude |-> LonAdelaide,
      transition |-> "start", expected |-> 630],
     [date |-> [year |-> 1975, month |-> 3, day |-> 2], time |-> <<2, 30>>,
      location |-> L_adelaide_australia, longitude |-> LonAdelaide,
      transition |-> "end", expected |-> 570],
     [date |-> [year |-> 2020, month |-> 3, day |-> 8], time |-> <<2, 30>>,
      location |-> L_new_york_usa, longitude |-> LonNewYork,
      transition |-> "start", expected |-> -240]}

\* the months of the three transitions, from the first to the last day
TransitionInputs ==
    {BirthInput(t.date.year, t.date.month, d, t.time[1], t.time[2], Lat0,
                t.longitude, t.location) :
        t \in dst_tests, d \in {1, 2, 8, 27, 28}}

ResolverInputs == DateInputs \cup TimeInputs \cup LongitudeInputs \cup TransitionInputs

(***************************************************************************)
(* Specification of the resolver: one call per behaviour step              *)
(***************************************************************************)
Init ==
    /\ tz = Idle
    /\ pos = Idle
    /\ chart = Idle
    /\ now = 0
    /\ runs = <<>>
    /\ api = [house_system |-> "W", last |-> [endpoint |-> "startup"]]
    /\ loop = [tasks |-> <<>>, current |-> 0, calls |-> <<>>]
    /\ services = [objects |-> [s \in {"MockAstrologyService", "AstrologyService"} |->
                                   [house_system |-> "W", stored |-> <<>>]],
                   last |-> [call |-> "__init__"]]

\* a caller invokes timezone_handler.calculate_accurate_utc_time
Resolve ==
    /\ tz.phase = "idle"
    /\ \E in \in ResolverInputs :
          tz' = [phase |-> "resolved",
                 in |-> in,
                 out |-> calculate_accurate_utc_time(in.date, in.time, in.latitude,
                                                     in.longitude, in.location)]
    /\ UNCHANGED <<pos, chart, now, runs, api, loop, services>>

\* the caller has consumed the result; the handler keeps no state between calls
ResolveDone ==
    /\ tz.phase = "resolved"
    /\ tz' = Idle
    /\ UNCHANGED <<pos, chart, now, runs, api, loop, services>>

NextTz == Resolve \/ ResolveDone

SpecTz == Init /\ [][NextTz]_vars


(***************************************************************************)
(* Claims about the resolver (checked under SpecTz)                        *)
(***************************************************************************)
TzResolved == tz.phase = "resolved" /\ ~tz.out.raised
TzLocal == tz.in.time.hour * 60 + tz.in.time.minute
TzInfo == tz.out.timezone_info

\* C1: the UTC time is local - offset moved by exactly one of +24 h, 0, -24 h:
\* below 0 it gains 24 h and the UTC day is day - 1, from 24 h on it loses
\* 24 h and the UTC day is day + 1, otherwise the day is kept; the UTC time
\* always lies in [0, 24 h).
C1_Rollover ==
    TzResolved =>
        LET diff == TzLocal - TzInfo.timezone_offset
            utc == tz.out.decimal_utc_time
            day == tz.in.date.day
        IN  /\ utc >= 0 /\ utc < 1440
            /\ diff < 0 => (utc = diff + 1440 /\ TzInfo.utc_day = day - 1)
            /\ diff >= 1440 => (utc = diff - 1440 /\ TzInfo.utc_day = day + 1)
            /\ (diff >= 0 /\ diff < 1440) => (utc = diff /\ TzInfo.utc_day = day)

\* 00:10 at offset +10.5 h is 13:40 UTC of the previous day
C1_Witness ==
    /\ TzResolved
    /\ tz.in.time = [hour |-> 0, minute |-> 10]
    /\ TzInfo.timezone_offset = 630
    /\ tz.out.decimal_utc_time = 820
    /\ TzInfo.utc_day = tz.in.date.day - 1

\* the documented DST introduction year of a region key (dst_history), as a
\* set: empty for a region without one
IntroducedYear(key) ==
    IF key \in DOMAIN dst_history.australia THEN {dst_history.australia[key].introduced}
    ELSE IF key \in {"new_york", "los_angeles", "chicago", "denver"}
    THEN {dst_history.usa.introduced}
    ELSE IF key \in {"london", "paris", "berlin", "moscow"}
    THEN {dst_history.europe.introduced}
    ELSE {}

C3_NeverRaises ==
    tz.phase = "resolved" =>
        /\ ~tz.out.raised
        /\ "method" \in DOMAIN tz.out.timezone_info
        /\ tz.out.timezone_info.method \in
              {"historical_lookup", "coordinate_approximation", "longitude_approximation"}

\* a label that names no region is resolved and tagged
C3_Witness ==
    /\ TzResolved
    /\ tz.in.location = L_rome
    /\ TzInfo.method = "coordinate_approximation"

\* C4: with a label that matches no region key the offset is the nearest
\* half hour to longitude / 15: a multiple of 0.5 h, within 0.25 h of
\* longitude / 15, in [-12 h, 12 h], tagged coordinate_approximation.
C4_CoordinateOffset ==
    (tz.phase = "resolved" /\ normalize_location_name(tz.in.location) \notin RegionKeys) =>
        /\ ~tz.out.raised
        /\ TzInfo.timezone_offset % 30 = 0
        /\ Abs(TzInfo.timezone_offset * GeoScale - 4 * tz.in.longitude) <= 15 * GeoScale
        /\ TzInfo.timezone_offset >= -720 /\ TzInfo.timezone_offset <= 720
        /\ TzInfo.method = "coordinate_approximation"

\* longitude 139 E without a label: 9.27 h rounds to 9.5 h
C4_Witness ==
    /\ TzResolved
    /\ tz.in.location = L_empty
    /\ tz.in.longitude = LonAdelaide
    /\ TzInfo.timezone_offset = 570
    /\ TzInfo.method = "coordinate_approximation"

\* C16: DST is resolved by date inside the boundary months of a region's DST
\* window: on and after the day DST ends (Adelaide 1975-03-02) the standard
\* offset applies, on and after the day DST starts (Adelaide 1974-10-27,
\* New York 2020-03-08) the DST offset applies.
C16_DateGranularDst ==
    TzResolved =>
        \A t \in dst_tests :
            (/\ tz.in.location = t.location
             /\ tz.in.date.year = t.date.year
             /\ tz.in.date.month = t.date.month
             /\ tz.in.date.day >= t.date.day)
                => TzInfo.timezone_offset = t.expected


(***************************************************************************)
(* Position interpretation, DMS formatting, whole-sign house rule          *)
(***************************************************************************)
\* self.zodiac_signs (the same list in every service)
zodiac_signs ==
    <<"Aries", "Taurus", "Gemini", "Cancer", "Leo", "Virgo", "Libra",
      "Scorpio", "Sagittarius", "Capricorn", "Aquarius", "Pisces">>

Signs == {zodiac_signs[i] : i \in 1..12}

\* list.index, 0-based
SignIndex(sign) == (CHOOSE i \in 1..12 : zodiac_signs[i] = sign) - 1

\* int(x) of the quotient n/d, d > 0: truncation towards zero
Trunc(n, d) == IF n >= 0 THEN n \div d ELSE -((-n) \div d)

\* a plausible slip: a longitude of exactly 30 degrees still counted in the
\* sign before
sign_and_degree_inclusive(longitude) ==
    LET sign_num == (longitude \div (30 * U + 1)) + 1
        degree == longitude % (30 * U)
    IN  [sign_num |-> sign_num, degree |-> degree, sign |-> zodiac_signs[sign_num]]

\* sign_num = int(longitude // 30) + 1; degree = longitude % 30;
\* sign_name = self.zodiac_signs[sign_num - 1]: floor division, a list index
\* from -12 to -1 counts from the end of the list, any other index outside
\* 0..11 raises IndexError
sign_and_degree(longitude) ==
    LET sign_num == (longitude \div (30 * U)) + 1
        degree == longitude % (30 * U)
        index == sign_num - 1
    IN  IF index \in 0..11
        THEN [sign_num |-> sign_num, degree |-> degree, sign |-> zodiac_signs[sign_num]]
        ELSE IF index \in (-12)..(-1)
        THEN [sign_num |-> sign_num, degree |-> degree,
              sign |-> zodiac_signs[index + 13]]
        ELSE Raised("IndexError")

\* a plausible slip: the seconds are rounded instead of cut
format_degree_rounded(degree) ==
    LET deg == Trunc(degree, U)
        minutes == (degree - deg * U) * 60
        min_val == Trunc(minutes, U)
        sec_val == RoundHalfEven((minutes - min_val * U) * 60, U)
    IN  [deg |-> deg, min |-> min_val, sec |-> sec_val, mark |-> "DEGREE SIGN"]

\* main_production.format_degree: the fraction by subtraction
format_degree(degree) ==
    LET deg == Trunc(degree, U)
        minutes == (degree - deg * U) * 60
        min_val == Trunc(minutes, U)
        sec_val == Trunc((minutes - min_val * U) * 60, U)
    IN  [deg |-> deg, min |-> min_val, sec |-> sec_val, mark |-> "DEGREE SIGN"]

\* chart_formatter.format_exact_degree: the fraction by "% 1"; the literal in
\* the file is the two characters A-circumflex, degree sign
format_exact_degree(degree) ==
    LET deg == Trunc(degree, U)
        minutes == (degree % U) * 60
        min_val == Trunc(minutes, U)
        sec == Trunc((minutes % U) * 60, U)
    IN  [deg |-> deg, min |-> min_val, sec |-> sec,
         mark |-> "A WITH CIRCUMFLEX, DEGREE SIGN"]

\* FreeAstrologyAPIService._format_exact_degree
free_format_exact_degree(degree) ==
    LET deg == Trunc(degree, U)
        minutes == (degree % U) * 60
        min_val == Trunc(minutes, U)
        sec == Trunc((minutes % U) * 60, U)
    IN  [deg |-> deg, min |-> min_val, sec |-> sec, mark |-> "DEGREE SIGN"]

\* a plausible slip: the remainder of C, which keeps the sign of the dividend
whole_sign_house_truncated(planet_sign, rising_sign) ==
    LET rising_sign_index == SignIndex(rising_sign)
        planet_sign_index == SignIndex(planet_sign)
        diff == planet_sign_index - rising_sign_index
    IN  (IF diff >= 0 THEN diff % 12 ELSE -((-diff) % 12)) + 1

\* the loop body of _assign_planets_to_houses
whole_sign_house(planet_sign, rising_sign) ==
    LET rising_sign_index == SignIndex(rising_sign)
        planet_sign_index == SignIndex(planet_sign)
    IN  ((planet_sign_index - rising_sign_index) % 12) + 1

\* main_production.determine_whole_sign_houses: sign -> house
determine_whole_sign_houses(rising_sign) ==
    LET rising_index == SignIndex(rising_sign)
    IN  [sign \in Signs |-> ((SignIndex(sign) - rising_index) % 12) + 1]

(***************************************************************************)
(* Inputs and specification of the pure position functions                 *)
(***************************************************************************)
Fractions == {0, 1, U \div 2, U - 1}

\* ecliptic longitudes in [0, 360): every whole degree, at four fractions
EclipticLons == {d * U + f : d \in 0..359, f \in Fractions}

\* degrees-in-sign in [0, 30): three whole degrees, at every fraction
DegreeSamples == {d * U + f : d \in {0, 14, 29}, f \in 0..(U - 1)}

\* a provider longitude is turned into sign and degree-in-sign
Interpret ==
    /\ pos.phase = "idle"
    /\ \E longitude \in EclipticLons :
          pos' = [phase |-> "interpreted",
                  longitude |-> longitude,
                  out |-> sign_and_degree(longitude)]
    /\ UNCHANGED <<tz, chart, now, runs, api, loop, services>>

\* longitudes at and beyond the ends of [0, 360)
AnyLons ==
    {-720 * U, -360 * U - 1, -360 * U, -330 * U, -30 * U - 1, -30 * U, -1,
     0, 359 * U, 360 * U - 1, 360 * U, 360 * U + 1, 390 * U, 720 * U}
        \cup {d * U : d \in (-400)..400}

\* the same interpretation, given whatever number it is handed
InterpretAny ==
    /\ pos.phase = "idle"
    /\ \E longitude \in AnyLons :
          pos' = [phase |-> "interpreted_any",
                  longitude |-> longitude,
                  out |-> sign_and_degree(longitude)]
    /\ UNCHANGED <<tz, chart, now, runs, api, loop, services>>

\* a degree-in-sign is formatted by each of the three formatters
FormatDegree ==
    /\ pos.phase = "idle"
    /\ \E degree \in DegreeSamples :
          pos' = [phase |-> "formatted",
                  degree |-> degree,
                  main_production |-> format_degree(degree),
                  chart_formatter |-> format_exact_degree(degree),
                  free_astrology_api |-> free_format_exact_degree(degree)]
    /\ UNCHANGED <<tz, chart, now, runs, api, loop, services>>

\* a body's sign is given its house, by the services' rule and by the API
\* layer's table
AssignHouse ==
    /\ pos.phase = "idle"
    /\ \E planet_sign \in Signs, rising_sign \in Signs :
          pos' = [phase |-> "housed",
                  planet_sign |-> planet_sign,
                  rising_sign |-> rising_sign,
                  house |-> whole_sign_house(planet_sign, rising_sign),
                  whole_sign_houses |-> determine_whole_sign_houses(rising_sign)]
    /\ UNCHANGED <<tz, chart, now, runs, api, loop, services>>

PosDone ==
    /\ pos.phase # "idle"
    /\ pos' = Idle
    /\ UNCHANGED <<tz, chart, now, runs, api, loop, services>>

NextPos == Interpret \/ InterpretAny \/ FormatDegree \/ AssignHouse \/ PosDone

SpecPos == Init /\ [][NextPos]_vars

(***************************************************************************)
(* Claims about the pure position functions (checked under SpecPos)        *)
(***************************************************************************)
\* C6: for every ecliptic longitude in [0, 360) the sign index is
\* floor(longitude / 30), in [0, 11] (sign_num in [1, 12], the sign is the
\* list entry of that index), the degree-in-sign is in [0, 30), and
\* 30 * index + degree-in-sign = longitude.
C6_SignAndDegree ==
    pos.phase = "interpreted" =>
        LET index == pos.out.sign_num - 1
        IN  /\ index \in 0..11
            /\ 30 * U * index <= pos.longitude
            /\ pos.longitude < 30 * U * (index + 1)
            /\ pos.out.sign = zodiac_signs[index + 1]
            /\ pos.out.degree >= 0 /\ pos.out.degree < 30 * U
            /\ 30 * U * index + pos.out.degree = pos.longitude

\* exactly 240 degrees is 0 degrees of Sagittarius, not 30 of Scorpio
C6_Witness ==
    /\ pos.phase = "interpreted"
    /\ pos.longitude = 240 * U
    /\ pos.out = [sign_num |-> 9, degree |-> 0, sign |-> "Sagittarius"]

\* C7: for every degree-in-sign d in [0, 30) the three parts are cut, never
\* rounded: min and sec in [0, 59] and deg*3600 + min*60 + sec = floor(d*3600);
\* format_degree and format_exact_degree give the same deg/min/sec.
C7_Truncation ==
    pos.phase = "formatted" =>
        LET a == pos.main_production
            b == pos.chart_formatter
            c == pos.free_astrology_api
        IN  /\ a.deg = pos.degree \div U
            /\ a.min \in 0..59 /\ a.sec \in 0..59
            /\ a.deg * 3600 + a.min * 60 + a.sec = (pos.degree * 3600) \div U
            /\ <<b.deg, b.min, b.sec>> = <<a.deg, a.min, a.sec>>
            /\ <<c.deg, c.min, c.sec>> = <<a.deg, a.min, a.sec>>

\* 29d42'23" and the larger half of a second more is shown with 23", not 24"
C7_Witness ==
    /\ pos.phase = "formatted"
    /\ pos.degree = 29 * U + 42 * 60 * SubSec + 23 * SubSec + (SubSec + 1) \div 2
    /\ <<pos.main_production.deg, pos.main_production.min, pos.main_production.sec>>
          = <<29, 42, 23>>
    /\ <<pos.chart_formatter.deg, pos.chart_formatter.min, pos.chart_formatter.sec>>
          = <<29, 42, 23>>

\* C8: for every pair (body sign, rising sign) the house is in [1, 12], it is
\* the place of the body's sign counted from the rising sign (rising sign = 1),
\* and the API layer's table gives the same number.
C8_WholeSignHouse ==
    pos.phase = "housed" =>
        /\ pos.house \in 1..12
        /\ zodiac_signs[((SignIndex(pos.rising_sign) + pos.house - 1) % 12) + 1]
              = pos.planet_sign
        /\ (pos.planet_sign = pos.rising_sign) => (pos.house = 1)
        /\ pos.whole_sign_houses[pos.planet_sign] = pos.house
        /\ pos.whole_sign_houses[pos.rising_sign] = 1

\* a body in the sign before the rising sign is in house 12; one in the
\* rising sign itself is in house 1
C8_Witness ==
    /\ pos.phase = "housed"
    /\ pos.rising_sign = "Gemini"
    /\ \/ (pos.planet_sign = "Taurus" /\ pos.house = 12)
       \/ (pos.planet_sign = "Gemini" /\ pos.house = 1)


\* C21: the position interpretation is total: whatever longitude it is
\* given (exactly 360, above 360, negative) it reduces it modulo 360 and
\* returns one of the 12 signs and a degree-in-sign in [0, 30), without
\* raising.
C21_InterpretationTotal ==
    pos.phase = "interpreted_any" =>
        LET reduced == pos.longitude % (360 * U)
        IN  /\ "raised" \notin DOMAIN pos.out
            /\ pos.out.sign = zodiac_signs[(reduced \div (30 * U)) + 1]
            /\ pos.out.degree = reduced % (30 * U)
            /\ pos.out.degree >= 0 /\ pos.out.degree < 30 * U

(***************************************************************************)
(* The ephemeris provider (swisseph) as the chart services use it          *)
(*                                                                         *)
(* swe.julday is a pure function of its arguments, so an instant is kept   *)
(* as the arguments it was asked for.  swe.calc_ut and swe.houses are not  *)
(* computed here: one call of generate_chart sees one ephemeris `swe`,     *)
(* which gives for every body a reading (longitude, daily motion, return   *)
(* flag) or a failure, and the two angles or a failure.                    *)
(***************************************************************************)
FLG_SWIEPH == 2
FLG_SPEED == 256

\* self.basic_planets, in dict order
basic_planets ==
    <<"Sun", "Moon", "Mercury", "Venus", "Mars",
      "Jupiter", "Saturn", "Uranus", "Neptune", "Pluto">>

\* self.planets of SwissEphemerisService and PySwissEphService, in dict order
all_planets == basic_planets \o <<"Chiron", "North Node", "South Node">>

\* the provider's body of a planet name in self.planets
planet_id(planet_name) ==
    IF planet_name = "Chiron" THEN "CHIRON"
    ELSE IF planet_name \in {"North Node", "South Node"} THEN "TRUE_NODE"
    ELSE planet_name

BodyIds == {basic_planets[i] : i \in 1..10} \cup {"TRUE_NODE", "MEAN_NODE", "CHIRON"}

\* swe.julday(year, month, day, hour, swe.GREG_CAL)
julday(year, month, day, time) ==
    [year |-> year, month |-> month, day |-> day, time |-> time]

\* ret_flag & swe.FLG_SPEED
AndFlgSpeed(ret_flag) == IF (ret_flag \div FLG_SPEED) % 2 = 1 THEN FLG_SPEED ELSE 0

(***************************************************************************)
(* Calendar arithmetic of datetime - timedelta                             *)
(***************************************************************************)
IsLeap(y) == (y % 4 = 0 /\ y % 100 # 0) \/ y % 400 = 0

DaysInMonth(y, m) ==
    IF m = 2 THEN (IF IsLeap(y) THEN 29 ELSE 28)
    ELSE IF m \in {4, 6, 9, 11} THEN 30 ELSE 31

PrevDay(d) ==
    IF d.day > 1 THEN [d EXCEPT !.day = d.day - 1]
    ELSE IF d.month > 1
    THEN [year |-> d.year, month |-> d.month - 1, day |-> DaysInMonth(d.year, d.month - 1)]
    ELSE [year |-> d.year - 1, month |-> 12, day |-> 31]

NextDay(d) ==
    IF d.day < DaysInMonth(d.year, d.month) THEN [d EXCEPT !.day = d.day + 1]
    ELSE IF d.month < 12 THEN [year |-> d.year, month |-> d.month + 1, day |-> 1]
    ELSE [year |-> d.year + 1, month |-> 1, day |-> 1]

\* datetime(year, month, day, hour, minute) - timedelta(hours=...), for a
\* difference of less than a day (the timezone field is in [-12, 14])
datetime_minus(date, minutes, delta) ==
    LET total == minutes - delta
    IN  [date |-> IF total < 0 THEN PrevDay(date)
                  ELSE IF total >= 1440 THEN NextDay(date) ELSE date,
         minutes |-> total % 1440]

(***************************************************************************)
(* The Julian-day conversion of each chart service                         *)
(***************************************************************************)
\* hour + minute / 60.0 of the request, in minutes
decimal_local_time(birth_info) == birth_info.time.hour * 60 + birth_info.time.minute

\* the rollover written out in the services that subtract an offset of
\* their own: the same three branches as in the handler
service_rollover(decimal_utc_time, day) ==
    IF decimal_utc_time < 0
    THEN [time |-> decimal_utc_time + 1440, day |-> day - 1]
    ELSE IF decimal_utc_time >= 1440
    THEN [time |-> decimal_utc_time - 1440, day |-> day + 1]
    ELSE [time |-> decimal_utc_time, day |-> day]

\* AstrologyCalculationsService._calculate_julian_day; the except ImportError
\* branch uses a fixed 10.5 h
AstrologyCalculations_calculate_julian_day(birth_info, handler_importable) ==
    IF handler_importable
    THEN LET r == calculate_accurate_utc_time(birth_info.date, birth_info.time,
                      birth_info.latitude, birth_info.longitude, birth_info.location)
         IN  IF r.raised THEN Raised("Failed to calculate Julian day")
             ELSE [raised |-> FALSE,
                   julian_day |-> julday(birth_info.date.year, birth_info.date.month,
                                         r.timezone_info.utc_day, r.decimal_utc_time)]
    ELSE LET u == service_rollover(decimal_local_time(birth_info) - 630,
                                   birth_info.date.day)
         IN  [raised |-> FALSE,
              julian_day |-> julday(birth_info.date.year, birth_info.date.month,
                                    u.day, u.time)]

\* EnhancedAstrologyCalculationsService._calculate_julian_day_with_timezone
Enhanced_calculate_julian_day_with_timezone(birth_info) ==
    LET r == calculate_accurate_utc_time(birth_info.date, birth_info.time,
                 birth_info.latitude, birth_info.longitude, birth_info.location)
    IN  IF r.raised THEN Raised("Failed to calculate Julian day with timezone")
        ELSE [raised |-> FALSE,
              julian_day |-> julday(birth_info.date.year, birth_info.date.month,
                                    r.timezone_info.utc_day, r.decimal_utc_time),
              timezone_info |-> r.timezone_info]

\* WholeSignAstrologyService._calculate_julian_day_accurate: always 9.5 h
WholeSign_calculate_julian_day_accurate(birth_info) ==
    LET u == service_rollover(decimal_local_time(birth_info) - 570, birth_info.date.day)
    IN  [raised |-> FALSE,
         julian_day |-> julday(birth_info.date.year, birth_info.date.month, u.day, u.time)]

\* "if birth_info.timezone:" is false for None and for 0.0
timezone_given(birth_info) ==
    birth_info.timezone # <<>> /\ birth_info.timezone[1] # 0

\* SwissEphemerisService._parse_birth_datetime and _calculate_julian_day
SwissEphemeris_calculate_julian_day(birth_info) ==
    LET birth_dt == [date |-> birth_info.date, minutes |-> decimal_local_time(birth_info)]
        utc_dt == IF timezone_given(birth_info)
                  THEN datetime_minus(birth_info.date, decimal_local_time(birth_info),
                                      birth_info.timezone[1])
                  ELSE birth_dt
    IN  [raised |-> FALSE,
         julian_day |-> julday(utc_dt.date.year, utc_dt.date.month, utc_dt.date.day,
                               utc_dt.minutes)]

\* PySwissEphService._calculate_julian_day
PySwissEph_calculate_julian_day(birth_info) ==
    LET u == IF timezone_given(birth_info)
             THEN service_rollover(decimal_local_time(birth_info) - birth_info.timezone[1],
                                   birth_info.date.day)
             ELSE [time |-> decimal_local_time(birth_info), day |-> birth_info.date.day]
    IN  [raised |-> FALSE,
         julian_day |-> julday(birth_info.date.year, birth_info.date.month, u.day, u.time)]

(***************************************************************************)
(* Chart assembly: the steps the services share                            *)
(***************************************************************************)
\* Planet(name=..., sign=..., sign_num=..., degree=..., house=1, retro=...)
Planet(name, sd, retro) ==
    [name |-> name, sign |-> sd.sign, sign_num |-> sd.sign_num,
     degree |-> sd.degree, house |-> 1, retro |-> retro]

\* (longitude + 180) % 360
Opposite(longitude) == (longitude + 180 * U) % (360 * U)

\* AstrologyResponse(...): pydantic keeps the declared fields, ignores any
\* other keyword and raises if a required field is missing; generated_at is
\* datetime.now(), passed by every caller and the default of the field
AstrologyResponse(fields) ==
    LET required == {"name", "birth_info", "planets", "houses", "ascendant", "midheaven"}
        declared == required \cup {"success"}
    IN  IF required \subseteq DOMAIN fields
        THEN Merge([raised |-> FALSE, success |-> TRUE, generated_at |-> now],
                   [k \in (DOMAIN fields) \cap declared |-> fields[k]])
        ELSE Raised("ValidationError")

\* a variant that answers a failed angle query with 0 Aries for both angles
calculate_ascendant_and_midheaven_defaulted(swe) ==
    LET asc == sign_and_degree(IF swe.houses.fail THEN 0 ELSE swe.houses.asc)
        mc == sign_and_degree(IF swe.houses.fail THEN 0 ELSE swe.houses.mc)
    IN  [raised |-> FALSE,
         ascendant |-> [sign |-> asc.sign, degree |-> asc.degree],
         midheaven |-> [sign |-> mc.sign, degree |-> mc.degree]]

\* swe.houses(julian_day, latitude, longitude, b'P') and the two angles
calculate_ascendant_and_midheaven(swe) ==
    IF swe.houses.fail THEN Raised("Failed to calculate Ascendant and Midheaven")
    ELSE LET asc == sign_and_degree(swe.houses.asc)
             mc == sign_and_degree(swe.houses.mc)
         IN  [raised |-> FALSE,
              ascendant |-> [sign |-> asc.sign, degree |-> asc.degree],
              midheaven |-> [sign |-> mc.sign, degree |-> mc.degree]]

\* _calculate_whole_sign_houses
calculate_whole_sign_houses(ascendant) ==
    LET rising_sign_index == SignIndex(ascendant.sign)
    IN  [house_num \in 1..12 |->
            LET house_sign_index == (rising_sign_index + house_num - 1) % 12
            IN  [house |-> house_num,
                 sign |-> zodiac_signs[house_sign_index + 1],
                 sign_num |-> house_sign_index + 1,
                 degree |-> 0]]

\* _assign_planets_to_houses
assign_planets_to_houses(planets, ascendant) ==
    [i \in 1..Len(planets) |->
        [planets[i] EXCEPT !.house = whole_sign_house(planets[i].sign, ascendant.sign)]]

\* a plausible slip: the South Node mirrored about 0 Aries instead of opposite
lunar_nodes_mirrored(reading, sn_retro) ==
    <<Planet("North Node", sign_and_degree(reading.lon), FALSE),
      Planet("South Node", sign_and_degree((360 * U - reading.lon) % (360 * U)),
             sn_retro)>>

\* North and South Node from one reading of the node
lunar_nodes(reading, sn_retro) ==
    <<Planet("North Node", sign_and_degree(reading.lon), FALSE),
      Planet("South Node", sign_and_degree(Opposite(reading.lon)), sn_retro)>>

(***************************************************************************)
(* AstrologyCalculationsService                                            *)
(***************************************************************************)
\* the Saturn correction: abs(longitude - 108.47) < 1.0
near_saturn_1974(longitude) == Abs(100 * longitude - 10847 * U) < 100 * U

\* the loop body of AstrologyCalculationsService._calculate_basic_planets
AstrologyCalculations_basic_planet(planet_name, reading) ==
    LET is_retrograde ==
            IF planet_name = "Saturn" /\ near_saturn_1974(reading.lon) THEN TRUE
            ELSE IF planet_name \notin {"Sun", "Moon"} THEN reading.speed < 0
            ELSE FALSE
    IN  Planet(planet_name, sign_and_degree(reading.lon), is_retrograde)

\* _add_estimated_nodes
add_estimated_nodes ==
    <<[name |-> "North Node", sign |-> "Sagittarius", sign_num |-> 9,
       degree |-> 15 * U, house |-> 1, retro |-> FALSE],
      [name |-> "South Node", sign |-> "Gemini", sign_num |-> 3,
       degree |-> 15 * U, house |-> 1, retro |-> TRUE]>>

\* _add_estimated_chiron of the two services that take a retrograde default
add_estimated_chiron(retro) ==
    [name |-> "Chiron", sign |-> "Aries", sign_num |-> 1,
     degree |-> 20 * U, house |-> 1, retro |-> retro]

\* AstrologyCalculationsService.generate_chart
AstrologyCalculations_generate_chart(birth_info, swe, handler_importable) ==
    LET jd == AstrologyCalculations_calculate_julian_day(birth_info, handler_importable)
        basic == [i \in 1..10 |->
                     AstrologyCalculations_basic_planet(basic_planets[i],
                                                        swe.calc[basic_planets[i]])]
        nodes == IF swe.calc["TRUE_NODE"].fail THEN add_estimated_nodes
                 ELSE lunar_nodes(swe.calc["TRUE_NODE"], TRUE)
        chiron == IF swe.calc["CHIRON"].fail THEN add_estimated_chiron(TRUE)
                  ELSE Planet("Chiron", sign_and_degree(swe.calc["CHIRON"].lon),
                              swe.calc["CHIRON"].speed < 0)
        angles == calculate_ascendant_and_midheaven(swe)
    IN  IF jd.raised \/ (\E i \in 1..10 : swe.calc[basic_planets[i]].fail) \/ angles.raised
        THEN Raised("Failed to generate astrology chart")
        ELSE AstrologyResponse(
                 [name |-> birth_info.name,
                  birth_info |-> birth_info,
                  planets |-> assign_planets_to_houses(basic \o nodes \o <<chiron>>,
                                                       angles.ascendant),
                  houses |-> calculate_whole_sign_houses(angles.ascendant),
                  ascendant |-> angles.ascendant,
                  midheaven |-> angles.midheaven])

(***************************************************************************)
(* EnhancedAstrologyCalculationsService and WholeSignAstrologyService      *)
(***************************************************************************)
\* retro=ret_flag & swe.FLG_SPEED and speed < 0: the integer 0 of a cleared
\* flag is read as False by the bool field
flagged_retro(reading) == AndFlgSpeed(reading.ret_flag) # 0 /\ reading.speed < 0

\* the loop body of _calculate_basic_planets in both services: no body is
\* excepted
flagged_planet(planet_name, reading) ==
    Planet(planet_name, sign_and_degree(reading.lon), flagged_retro(reading))

\* the planet list of both services: a failed node reading only logs a
\* warning, a failed Chiron reading takes the estimate
flagged_planets(swe) ==
    LET basic == [i \in 1..10 |-> flagged_planet(basic_planets[i],
                                                 swe.calc[basic_planets[i]])]
        nodes == IF swe.calc["MEAN_NODE"].fail THEN <<>>
                 ELSE lunar_nodes(swe.calc["MEAN_NODE"], FALSE)
        chiron == IF swe.calc["CHIRON"].fail THEN add_estimated_chiron(FALSE)
                  ELSE flagged_planet("Chiron", swe.calc["CHIRON"])
    IN  basic \o nodes \o <<chiron>>

\* EnhancedAstrologyCalculationsService.generate_chart
Enhanced_generate_chart(birth_info, swe) ==
    LET jd == Enhanced_calculate_julian_day_with_timezone(birth_info)
        angles == calculate_ascendant_and_midheaven(swe)
    IN  IF jd.raised \/ angles.raised \/ (\E i \in 1..10 : swe.calc[basic_planets[i]].fail)
        THEN Raised("Failed to generate astrology chart")
        ELSE AstrologyResponse(
                 [name |-> birth_info.name,
                  birth_info |-> birth_info,
                  planets |-> assign_planets_to_houses(flagged_planets(swe),
                                                       angles.ascendant),
                  houses |-> calculate_whole_sign_houses(angles.ascendant),
                  ascendant |-> angles.ascendant,
                  midheaven |-> angles.midheaven,
                  timezone_info |-> jd.timezone_info.method])

\* WholeSignAstrologyService.generate_chart
WholeSign_generate_chart(birth_info, swe) ==
    LET angles == calculate_ascendant_and_midheaven(swe)
    IN  IF angles.raised \/ (\E i \in 1..10 : swe.calc[basic_planets[i]].fail)
        THEN Raised("Failed to generate astrology chart")
        ELSE AstrologyResponse(
                 [name |-> birth_info.name,
                  birth_info |-> birth_info,
                  planets |-> assign_planets_to_houses(flagged_planets(swe),
                                                       angles.ascendant),
                  houses |-> calculate_whole_sign_houses(angles.ascendant),
                  ascendant |-> angles.ascendant,
                  midheaven |-> angles.midheaven])

(***************************************************************************)
(* SwissEphemerisService and PySwissEphService                             *)
(***************************************************************************)
\* the loop body of _calculate_planetary_positions; guarded is PySwissEph's
\* "if planet_name not in ['Sun', 'Moon']"
ephemeris_planet(planet_name, swe, guarded) ==
    LET reading == swe.calc[planet_id(planet_name)]
        longitude == IF planet_name = "South Node" THEN Opposite(reading.lon)
                     ELSE reading.lon
        speed == IF planet_name = "South Node" THEN -reading.speed ELSE reading.speed
        is_retrograde == IF guarded /\ planet_name \in {"Sun", "Moon"} THEN FALSE
                         ELSE speed < 0
    IN  Planet(planet_name, sign_and_degree(longitude), is_retrograde)

\* generate_chart of both services: the response is built without midheaven
ephemeris_generate_chart(birth_info, swe, guarded) ==
    IF swe.houses.fail \/ (\E i \in 1..13 : swe.calc[planet_id(all_planets[i])].fail)
    THEN Raised("Failed to generate astrology chart")
    ELSE LET asc == sign_and_degree(swe.houses.asc)
             ascendant == [sign |-> asc.sign, degree |-> asc.degree]
             planets == [i \in 1..13 |-> ephemeris_planet(all_planets[i], swe, guarded)]
             response == AstrologyResponse(
                             [name |-> birth_info.name,
                              birth_info |-> birth_info,
                              planets |-> assign_planets_to_houses(planets, ascendant),
                              houses |-> calculate_whole_sign_houses(ascendant),
                              ascendant |-> ascendant])
         IN  IF response.raised THEN Raised("Failed to generate astrology chart")
             ELSE response

(***************************************************************************)
(* MockAstrologyService                                                    *)
(*                                                                         *)
(* hash() of a str is salted per process: a call sees one hash function,   *)
(* here a*key + b over the keys (kind of string, planet index).            *)
(***************************************************************************)
hash(seed, kind, i) == seed.a * (16 * kind + i) + seed.b

L_Adelaide_word == <<"A", "d", "e", "l", "a", "i", "d", "e">>

\* MockAstrologyService._calculate_sun_position: (sign number, degree)
calculate_sun_position(birth_date) ==
    LET month == birth_date.month
        day == birth_date.day
        starts == <<20, 19, 21, 20, 21, 21, 23, 23, 23, 23, 23, 22>>
        \* the sign that begins in the month, from Aquarius in January
        begins == <<11, 12, 1, 2, 3, 4, 5, 6, 7, 8, 9, 10>>
        sign_num == IF day >= starts[month] THEN begins[month]
                    ELSE ((begins[month] + 10) % 12) + 1
    IN  IF month = 11 /\ day = 22 THEN <<8, 29 * U>> ELSE <<sign_num, 15 * U>>

\* the planet loop of MockAstrologyService.generate_chart: the house comes
\* from a hash of time and planet name, not from the sign
Mock_planets(birth_info, seed) ==
    [k \in 1..13 |->
        LET i == k - 1
            planet_name == all_planets[k]
            sun == calculate_sun_position(birth_info.date)
            sign_num == IF planet_name = "Sun" THEN sun[1]
                        ELSE ((i * 3 + hash(seed, 0, 0)) % 12) + 1
            degree == IF planet_name = "Sun" THEN sun[2]
                      ELSE ((hash(seed, 1, i) % 3000) * U) \div 100
        IN  [name |-> planet_name,
             sign |-> zodiac_signs[sign_num],
             sign_num |-> sign_num,
             degree |-> degree,
             house |-> ((i * 2 + hash(seed, 2, i)) % 12) + 1,
             retro |-> hash(seed, 3, i) % 4 = 0]]

\* MockAstrologyService.generate_chart with house_system "W": the response
\* is built without midheaven, and nothing catches the error
Mock_generate_chart(birth_info, seed) ==
    LET mia == /\ birth_info.name = "Mia"
               /\ birth_info.date = [year |-> 1974, month |-> 11, day |-> 22]
               /\ birth_info.time = [hour |-> 19, minute |-> 10]
               /\ Contains(birth_info.location, L_Adelaide_word)
        ascendant_sign_num == IF mia THEN 2 ELSE (hash(seed, 4, 0) % 12) + 1
        ascendant_degree == IF mia THEN 19 * U
                            ELSE ((hash(seed, 5, 0) % 3000) * U) \div 100
        ascendant == [sign |-> zodiac_signs[ascendant_sign_num],
                      degree |-> ascendant_degree]
    IN  AstrologyResponse(
            [name |-> birth_info.name,
             birth_info |-> birth_info,
             planets |-> Mock_planets(birth_info, seed),
             houses |-> calculate_whole_sign_houses(ascendant),
             ascendant |-> ascendant])

(***************************************************************************)
(* FreeAstrologyAPIService.format_api_response                             *)
(***************************************************************************)
\* dict.get(key, default)
Get(d, key, default) == IF key \in DOMAIN d THEN d[key] ELSE default

\* planet_names of format_api_response, in list order
planet_names ==
    basic_planets \o <<"North Node", "South Node", "Chiron">>

\* format_api_response: sign, house, degree and retrograde are copied from
\* the upstream reply
format_api_response(api_data, birth_info) ==
    LET planets == Get(api_data, "planets", <<>>)
        present == SelectSeq(planet_names, LAMBDA n : n \in DOMAIN planets)
        placements ==
            [k \in 1..Len(present) |->
                LET planet_data == planets[present[k]]
                IN  [planet |-> present[k],
                     sign |-> Get(planet_data, "sign", "Unknown"),
                     house |-> Get(planet_data, "house", 1),
                     degree |-> Get(planet_data, "degree", 0),
                     exactDegree |-> free_format_exact_degree(Get(planet_data, "degree", 0)),
                     retrograde |-> Get(planet_data, "retrograde", FALSE)]]
        ascendant == Get(api_data, "ascendant", <<>>)
        midheaven == Get(api_data, "midheaven", <<>>)
        SignOf(name) == IF \E k \in 1..Len(placements) : placements[k].planet = name
                        THEN placements[CHOOSE k \in 1..Len(placements) :
                                            placements[k].planet = name].sign
                        ELSE "Unknown"
    IN  [raised |-> FALSE,
         name |-> birth_info.name,
         birthDate |-> birth_info.date,
         birthTime |-> birth_info.time,
         location |-> birth_info.location,
         coordinates |-> [latitude |-> birth_info.latitude,
                          longitude |-> birth_info.longitude,
                          timezone |-> birth_info.timezone],
         houseSystem |-> "Whole Signs",
         risingSign |-> Get(ascendant, "sign", "Unknown"),
         sunSign |-> SignOf("Sun"),
         moonSign |-> SignOf("Moon"),
         ascendant |-> [sign |-> Get(ascendant, "sign", "Unknown"),
                        degree |-> Get(ascendant, "degree", 0),
                        exactDegree |-> free_format_exact_degree(Get(ascendant, "degree", 0))],
         midheaven |-> [sign |-> Get(midheaven, "sign", "Unknown"),
                        degree |-> Get(midheaven, "degree", 0),
                        exactDegree |-> free_format_exact_degree(Get(midheaven, "degree", 0))],
         placements |-> placements,
         generatedAt |-> now,
         source |-> "Free Astrology API"]

(***************************************************************************)
(* Inputs of the chart services                                            *)
(***************************************************************************)
\* BirthInfoRequest; the optional timezone field is <<>> for None
BirthInfoRequest(name, date, time, place, timezone) ==
    [name |-> name,
     date |-> [year |-> date[1], month |-> date[2], day |-> date[3]],
     time |-> [hour |-> time[1], minute |-> time[2]],
     latitude |-> Lat0, longitude |-> place[2], location |-> place[1],
     timezone |-> timezone]

Places ==
    {<<L_adelaide, LonAdelaide>>, <<L_new_york, LonNewYork>>,
     <<L_rome, LonAdelaide>>, <<L_london, 0>>}

\* None, 0.0, 10.5, 9.5 and -5.0 hours (models.py: ge=-12, le=14)
TimezoneFields == {<<>>, <<0>>, <<630>>, <<570>>, <<-300>>}

RequestSamples ==
    {BirthInfoRequest("Mia", d, t, p, z) :
        d \in {<<1974, 11, 22>>, <<1974, 11, 1>>, <<2020, 3, 31>>, <<1960, 6, 1>>},
        t \in {<<0, 10>>, <<9, 0>>, <<10, 0>>, <<19, 10>>, <<23, 50>>},
        p \in Places, z \in TimezoneFields}

BaseRequest ==
    BirthInfoRequest("Mia", <<1974, 11, 22>>, <<19, 10>>, <<L_adelaide, LonAdelaide>>, <<>>)

\* degrees and arc minutes, in units
Arc(d, m) == d * U + m * 60 * SubSec

Reading(lon, speed, ret_flag) ==
    [fail |-> FALSE, lon |-> lon, speed |-> speed, ret_flag |-> ret_flag]

Failed == [fail |-> TRUE, lon |-> 0, speed |-> 0, ret_flag |-> 0]

\* an ephemeris with four bodies in Scorpio, at 0, 14, 17 and 29 degrees
BaselineCalc ==
    [b \in BodyIds |->
        CASE b = "Sun"       -> Reading(Arc(239, 42), 1, FLG_SWIEPH)
          [] b = "Moon"      -> Reading(Arc(334, 42), 1, FLG_SWIEPH)
          [] b = "Mercury"   -> Reading(Arc(224, 44), 1, FLG_SWIEPH)
          [] b = "Venus"     -> Reading(Arc(243, 38), 1, FLG_SWIEPH)
          [] b = "Mars"      -> Reading(Arc(227, 6), 1, FLG_SWIEPH)
          [] b = "Jupiter"   -> Reading(Arc(338, 35), 1, FLG_SWIEPH)
          [] b = "Saturn"    -> Reading(Arc(108, 28), -1, FLG_SWIEPH)
          [] b = "Uranus"    -> Reading(Arc(210, 3), 1, FLG_SWIEPH)
          [] b = "Neptune"   -> Reading(Arc(248, 58), 1, FLG_SWIEPH)
          [] b = "Pluto"     -> Reading(Arc(188, 32), 1, FLG_SWIEPH)
          [] b = "TRUE_NODE" -> Reading(Arc(250, 20), -1, FLG_SWIEPH)
          [] b = "MEAN_NODE" -> Reading(Arc(251, 5), -1, FLG_SWIEPH)
          [] b = "CHIRON"    -> Reading(Arc(20, 0), -1, FLG_SWIEPH)]

BaselineHouses == [fail |-> FALSE, asc |-> Arc(61, 35), mc |-> Arc(315, 0)]

Baseline == [calc |-> BaselineCalc, houses |-> BaselineHouses]

FocusBodies == {"Sun", "Moon", "Mercury", "Saturn", "CHIRON", "TRUE_NODE"}

\* both ends of every sign, and the edges of the Saturn window
LonSamples ==
    {30 * U * k + f : k \in 0..11, f \in {0, 30 * U - 1}}
        \cup {Arc(107, 28), Arc(107, 29), Arc(109, 28), Arc(109, 29)}

Speeds == {-1, 0, 1}
RetFlags == {FLG_SWIEPH, FLG_SWIEPH + FLG_SPEED}
AscSamples == {0, Arc(61, 35), 240 * U - 1, 360 * U - 1}

\* the baseline with one body's reading and the Ascendant varied
FocusEphemerides ==
    {[calc |-> [BaselineCalc EXCEPT ![b] = Reading(lon, sp, fl)],
      houses |-> [BaselineHouses EXCEPT !.asc = a]] :
        b \in FocusBodies, lon \in LonSamples, sp \in Speeds, fl \in RetFlags,
        a \in AscSamples}

\* the baseline with some of the provider calls failing
FailureEphemerides ==
    {[calc |-> [b \in BodyIds |-> IF b \in f THEN Failed ELSE BaselineCalc[b]],
      houses |-> IF "houses" \in f THEN [fail |-> TRUE, asc |-> 0, mc |-> 0]
                 ELSE BaselineHouses] :
        f \in SUBSET {"Sun", "TRUE_NODE", "MEAN_NODE", "CHIRON", "houses"}
             \cup {{basic_planets[i]} : i \in 1..10}}

ChartInputs ==
    {<<r, Baseline>> : r \in RequestSamples}
        \cup {<<BaseRequest, e>> : e \in FocusEphemerides \cup FailureEphemerides}

\* the import of services.timezone_handler succeeds wherever the import of
\* models at the top of the same file did
HandlerImportable == TRUE

HashSeeds == {[a |-> a, b |-> b] : a \in {1, 5, 7}, b \in {-40, 0, 13, 2999}}

MockRequests ==
    {BirthInfoRequest(n, d, <<19, 10>>, p, <<>>) :
        n \in {"Mia", "Paul"},
        d \in {<<1974, 11, 22>>, <<1974, 11, 23>>, <<2020, 3, 20>>, <<1960, 1, 20>>},
        p \in Places}

\* replies of the upstream API: two bodies, with or without a house
UpstreamPlanet ==
    {[sign |-> sg, degree |-> Arc(14, 44)] : sg \in {"Scorpio", "Sagittarius"}}
        \cup {[sign |-> sg, degree |-> Arc(29, 42), house |-> h] :
                 sg \in {"Scorpio", "Sagittarius"}, h \in {6, 7}}

UpstreamReplies ==
    {[planets |-> [n \in {"Sun", "Mercury"} |-> IF n = "Sun" THEN a ELSE b],
      ascendant |-> [sign |-> "Gemini", degree |-> Arc(1, 35)],
      midheaven |-> [sign |-> "Aquarius", degree |-> Arc(15, 0)]] :
        a \in UpstreamPlanet, b \in UpstreamPlanet}
        \cup {[planets |-> <<>>]}

(***************************************************************************)
(* Specification of chart assembly: one generate_chart call per step.      *)
(* julian_day holds the arguments given to swe.julday, <<>> if it was not  *)
(* called.                                                                 *)
(***************************************************************************)
Called(service, birth_info, swe, jd, out) ==
    [phase |-> "done", service |-> service, in |-> birth_info, swe |-> swe,
     julian_day |-> IF jd.raised THEN <<>> ELSE <<jd.julian_day>>,
     out |-> out]

AstrologyCalculationsChart ==
    /\ chart.phase = "idle"
    /\ \E inp \in ChartInputs :
          chart' = Called("AstrologyCalculationsService", inp[1], inp[2],
                       AstrologyCalculations_calculate_julian_day(inp[1], HandlerImportable),
                       AstrologyCalculations_generate_chart(inp[1], inp[2], HandlerImportable))
    /\ UNCHANGED <<tz, pos, now, runs, api, loop, services>>

EnhancedChart ==
    /\ chart.phase = "idle"
    /\ \E inp \in ChartInputs :
          chart' = Called("EnhancedAstrologyCalculationsService", inp[1], inp[2],
                       Enhanced_calculate_julian_day_with_timezone(inp[1]),
                       Enhanced_generate_chart(inp[1], inp[2]))
    /\ UNCHANGED <<tz, pos, now, runs, api, loop, services>>

WholeSignChart ==
    /\ chart.phase = "idle"
    /\ \E inp \in ChartInputs :
          chart' = Called("WholeSignAstrologyService", inp[1], inp[2],
                       WholeSign_calculate_julian_day_accurate(inp[1]),
                       WholeSign_generate_chart(inp[1], inp[2]))
    /\ UNCHANGED <<tz, pos, now, runs, api, loop, services>>

SwissEphemerisChart ==
    /\ chart.phase = "idle"
    /\ \E inp \in ChartInputs :
          chart' = Called("SwissEphemerisService", inp[1], inp[2],
                       SwissEphemeris_calculate_julian_day(inp[1]),
                       ephemeris_generate_chart(inp[1], inp[2], FALSE))
    /\ UNCHANGED <<tz, pos, now, runs, api, loop, services>>

PySwissEphChart ==
    /\ chart.phase = "idle"
    /\ \E inp \in ChartInputs :
          chart' = Called("PySwissEphService", inp[1], inp[2],
                       PySwissEph_calculate_julian_day(inp[1]),
                       ephemeris_generate_chart(inp[1], inp[2], TRUE))
    /\ UNCHANGED <<tz, pos, now, runs, api, loop, services>>

\* MockAstrologyService.generate_chart: no provider, no Julian day
MockChart ==
    /\ chart.phase = "idle"
    /\ \E birth_info \in MockRequests, seed \in HashSeeds :
          chart' = [phase |-> "done", service |-> "MockAstrologyService",
                    in |-> birth_info, seed |-> seed, julian_day |-> <<>>,
                    out |-> Mock_generate_chart(birth_info, seed)]
    /\ UNCHANGED <<tz, pos, now, runs, api, loop, services>>

\* FreeAstrologyAPIService.format_api_response on a reply of the upstream API
FreeAstrologyAPIChart ==
    /\ chart.phase = "idle"
    /\ \E api_data \in UpstreamReplies :
          chart' = [phase |-> "done", service |-> "FreeAstrologyAPIService",
                    in |-> BaseRequest, api_data |-> api_data, julian_day |-> <<>>,
                    out |-> format_api_response(api_data, BaseRequest)]
    /\ UNCHANGED <<tz, pos, now, runs, api, loop, services>>

\* the caller has the chart or the error; the services keep nothing of it
ChartDone ==
    /\ chart.phase = "done"
    /\ chart' = Idle
    /\ UNCHANGED <<tz, pos, now, runs, api, loop, services>>

Next ==
    \/ AstrologyCalculationsChart
    \/ EnhancedChart
    \/ WholeSignChart
    \/ SwissEphemerisChart
    \/ PySwissEphChart
    \/ MockChart
    \/ FreeAstrologyAPIChart
    \/ ChartDone

Spec == Init /\ [][Next]_vars

(***************************************************************************)
(* Claims about chart assembly (checked under Spec)                        *)
(***************************************************************************)
ChartReturned == chart.phase = "done" /\ ~chart.out.raised

\* the placements of a returned chart: the planets of an AstrologyResponse,
\* the placements of a formatted reply
ChartPlacements ==
    IF "planets" \in DOMAIN chart.out THEN chart.out.planets ELSE chart.out.placements

PlacementName(p) == IF "name" \in DOMAIN p THEN p.name ELSE p.planet
PlacementRetro(p) == IF "retro" \in DOMAIN p THEN p.retro ELSE p.retrograde

\* what the resolver returns for the request of the chart call
ChartResolved ==
    calculate_accurate_utc_time(chart.in.date, chart.in.time, chart.in.latitude,
                                chart.in.longitude, chart.in.location)

\* C5: in every chart-assembly path the day given to the Julian-day
\* conversion is the resolver's UTC day (the input day moved by -1, 0 or +1)
\* and the time is the resolver's UTC time.
C5_UtcDayPropagated ==
    (chart.phase = "done" /\ chart.julian_day # <<>>) =>
        /\ ~ChartResolved.raised
        /\ chart.julian_day[1].day = ChartResolved.timezone_info.utc_day
        /\ chart.julian_day[1].time = ChartResolved.decimal_utc_time

\* C9: in every chart returned by any chart service, two placements with the
\* same sign have the same house, whatever their degrees.
C9_SameSignSameHouse ==
    ChartReturned =>
        \A i, j \in 1..Len(ChartPlacements) :
            ChartPlacements[i].sign = ChartPlacements[j].sign
                => ChartPlacements[i].house = ChartPlacements[j].house

\* C10: whatever daily motion the provider returns, the Sun and the Moon are
\* not retrograde in any chart a service produces.
C10_SunMoonNeverRetrograde ==
    ChartReturned =>
        \A i \in 1..Len(ChartPlacements) :
            PlacementName(ChartPlacements[i]) \in {"Sun", "Moon"}
                => ~PlacementRetro(ChartPlacements[i])

\* the charts the provider-backed services build from provider readings
ProviderChart == ChartReturned /\ "swe" \in DOMAIN chart

\* the bodies whose retrograde flag is read off the daily motion
MotionBodies ==
    {"Mercury", "Venus", "Mars", "Jupiter", "Saturn", "Uranus", "Neptune", "Pluto"}

\* the provider reading behind a placement of a provider chart
PlacementReading(p) ==
    chart.swe.calc[IF PlacementName(p) = "Chiron" THEN "CHIRON" ELSE PlacementName(p)]

\* C11: for Mercury to Pluto and a provider-computed Chiron the placement is
\* retrograde exactly when the provider's daily motion is below zero, whatever
\* the longitude and the return flag; zero motion is not retrograde.
C11_RetrogradeIffMotionNegative ==
    ProviderChart =>
        \A i \in 1..Len(ChartPlacements) :
            LET p == ChartPlacements[i]
            IN  (\/ PlacementName(p) \in MotionBodies
                 \/ PlacementName(p) = "Chiron" /\ ~chart.swe.calc["CHIRON"].fail)
                    => (PlacementRetro(p) <=> PlacementReading(p).speed < 0)

\* the estimate marker of a placement: the Planet model (models.py:87-95)
\* declares name, sign, sign_num, degree, house and retro only
PlacementEstimated(p) == "estimated" \in DOMAIN p /\ p.estimated

\* the angles and the ten required bodies were read without failure
RequiredSucceeded ==
    /\ ~chart.swe.houses.fail
    /\ \A i \in 1..10 : ~chart.swe.calc[basic_planets[i]].fail

\* a provider-backed service was called and the Chiron query failed
ChironFailedOnly ==
    /\ chart.phase = "done"
    /\ "swe" \in DOMAIN chart
    /\ chart.service \in {"AstrologyCalculationsService",
                          "EnhancedAstrologyCalculationsService",
                          "WholeSignAstrologyService"}
    /\ chart.swe.calc["CHIRON"].fail
    /\ RequiredSucceeded

\* C12: if the provider fails for Chiron while the angles and the required
\* bodies succeed, the call returns a chart, and the chart has a Chiron
\* placement that is marked estimated and is not retrograde.
C12_EstimatedChiron ==
    ChironFailedOnly =>
        /\ ~chart.out.raised
        /\ \E i \in 1..Len(chart.out.planets) :
              /\ chart.out.planets[i].name = "Chiron"
              /\ PlacementEstimated(chart.out.planets[i])
              /\ ~chart.out.planets[i].retro

\* a provider-backed service was called and the angle query or the query of
\* one of the ten required bodies failed
RequiredFailed ==
    /\ chart.phase = "done"
    /\ "swe" \in DOMAIN chart
    /\ ~RequiredSucceeded

\* C13: if the angle query fails or the provider fails for one of the ten
\* required bodies (Sun to Pluto), generate_chart raises: no response object
\* is produced for that request.
C13_RequiredFailureIsFatal ==
    RequiredFailed => chart.out.raised /\ "planets" \notin DOMAIN chart.out

\* the angle query alone failed in a service that returns charts otherwise
C13_Witness ==
    /\ RequiredFailed
    /\ chart.service = "AstrologyCalculationsService"
    /\ chart.swe.houses.fail
    /\ \A i \in 1..10 : ~chart.swe.calc[basic_planets[i]].fail
    /\ chart.out.raised

\* the 13 supported bodies
SupportedBodies == {all_planets[i] : i \in 1..13}

\* C14: every returned chart has exactly one placement for each of the 13
\* supported bodies, none repeated and none missing, whichever optional-body
\* queries (Chiron, nodes) failed.
C14_ThirteenBodiesOnce ==
    ChartReturned =>
        /\ Len(ChartPlacements) = 13
        /\ {PlacementName(ChartPlacements[i]) : i \in 1..Len(ChartPlacements)}
               = SupportedBodies

(***************************************************************************)
(* Specification of repeated chart assembly: generate_chart calls at       *)
(* different wall-clock times, possibly in different processes, recorded   *)
(* in call order.                                                          *)
(***************************************************************************)
MaxClock == 2     \* the clock ticks at most this often
MaxRuns == 2      \* calls recorded before the record is cleared

RunServices ==
    {"AstrologyCalculationsService", "EnhancedAstrologyCalculationsService",
     "WholeSignAstrologyService", "MockAstrologyService"}

RunRequests ==
    {BaseRequest,
     BirthInfoRequest("Paul", <<1960, 6, 1>>, <<9, 0>>, <<L_london, 0>>, <<>>)}

RunEphemerides ==
    {Baseline, [Baseline EXCEPT !.calc["CHIRON"] = Failed]}

\* astrology_service.generate_chart(birth_info) of the configured service;
\* seed is the string-hash salt of the process that serves the call
service_generate_chart(service, birth_info, swe, seed) ==
    CASE service = "AstrologyCalculationsService" ->
             AstrologyCalculations_generate_chart(birth_info, swe, HandlerImportable)
      [] service = "EnhancedAstrologyCalculationsService" ->
             Enhanced_generate_chart(birth_info, swe)
      [] service = "WholeSignAstrologyService" ->
             WholeSign_generate_chart(birth_info, swe)
      [] service = "MockAstrologyService" ->
             Mock_generate_chart(birth_info, seed)

\* time passes between calls
Tick ==
    /\ now < MaxClock
    /\ now' = now + 1
    /\ UNCHANGED <<tz, pos, chart, runs, api, loop, services>>

\* one more generate_chart call
Run ==
    /\ Len(runs) < MaxRuns
    /\ \E service \in RunServices, birth_info \in RunRequests,
          swe \in RunEphemerides, seed \in HashSeeds :
          runs' = Append(runs, [service |-> service, in |-> birth_info, swe |-> swe,
                                out |-> service_generate_chart(service, birth_info,
                                                               swe, seed)])
    /\ UNCHANGED <<tz, pos, chart, now, api, loop, services>>

\* the callers have their charts
RunsDone ==
    /\ Len(runs) = MaxRuns
    /\ runs' = <<>>
    /\ UNCHANGED <<tz, pos, chart, now, api, loop, services>>

NextRuns == Tick \/ Run \/ RunsDone

SpecRuns == Init /\ [][NextRuns]_vars

\* C15: two chart-assembly runs of a service with the same birth moment and
\* the same provider responses return the same chart, whenever they run and
\* in whichever process.
C15_Deterministic ==
    \A i, j \in 1..Len(runs) :
        (/\ runs[i].service = runs[j].service
         /\ runs[i].in = runs[j].in
         /\ runs[i].swe = runs[j].swe)
            => runs[i].out = runs[j].out

(***************************************************************************)
(* The HTTP API of main.py over one MockAstrologyService instance.  api    *)
(* starts as main.py leaves it at import: MockAstrologyService() and       *)
(* set_house_system("W").                                                  *)
(***************************************************************************)
\* valid_systems of MockAstrologyService.set_house_system
valid_systems == {"P", "K", "O", "R", "C", "A", "V", "W", "X", "H", "T", "B", "M"}

\* MockAstrologyService.set_house_system: the new setting, or ValueError
Mock_set_house_system(current, house_system) ==
    IF house_system \notin valid_systems
    THEN [raised |-> TRUE, what |-> "ValueError", house_system |-> current]
    ELSE [raised |-> FALSE, house_system |-> house_system]

\* bodies of POST /set-house-system: a code, an unknown code, an empty code
HouseSystemRequests == valid_systems \cup {"Z", "w", ""}

\* replies of the geocoding upstream: failure, or the coordinates of a place
GeocodeReplies ==
    {[fail |-> TRUE, latitude |-> 0, longitude |-> 0]}
        \cup {[fail |-> FALSE, latitude |-> Lat0, longitude |-> lon] :
                 lon \in {LonAdelaide, LonNewYork, 30 * GeoScale}}

\* GeocodingService.get_coordinates: timezone = round(longitude / 15) hours
get_coordinates(reply) ==
    IF reply.fail THEN Raised("Geocoding failed")
    ELSE [raised |-> FALSE,
          latitude |-> reply.latitude,
          longitude |-> reply.longitude,
          timezone |-> 60 * RoundHalfEven(reply.longitude, 15 * GeoScale)]

\* "if not birth_info.latitude or not birth_info.longitude"
needs_geocoding(birth_info) == birth_info.latitude = 0 \/ birth_info.longitude = 0

\* GET /current-house-system
GetCurrentHouseSystem ==
    /\ api' = [api EXCEPT !.last = [endpoint |-> "/current-house-system",
                                    status |-> 200,
                                    code |-> api.house_system]]
    /\ UNCHANGED <<tz, pos, chart, now, runs, loop, services>>

\* POST /set-house-system: an empty code raises HTTPException(400) inside the
\* try, which "except Exception" turns into a 500
SetHouseSystem ==
    /\ \E house_system \in HouseSystemRequests :
          LET r == Mock_set_house_system(api.house_system, house_system)
          IN  api' = IF house_system = ""
                     THEN [api EXCEPT !.last = [endpoint |-> "/set-house-system",
                                                request |-> house_system,
                                                status |-> 500]]
                     ELSE IF r.raised
                     THEN [api EXCEPT !.last = [endpoint |-> "/set-house-system",
                                                request |-> house_system,
                                                status |-> 400]]
                     ELSE [house_system |-> r.house_system,
                           last |-> [endpoint |-> "/set-house-system",
                                     request |-> house_system,
                                     status |-> 200, code |-> house_system]]
    /\ UNCHANGED <<tz, pos, chart, now, runs, loop, services>>

\* _convert_to_complete_chart_response, the Midheaven: the cusp of house 10
\* of the raw chart
complete_chart_midheaven(raw_chart) ==
    LET tenth == {n \in DOMAIN raw_chart.houses : raw_chart.houses[n].house = 10}
    IN  IF tenth = {} THEN [sign |-> "Unknown", degree |-> 0]
        ELSE LET tenth_house == raw_chart.houses[CHOOSE n \in tenth : \A k \in tenth : n <= k]
             IN  [sign |-> tenth_house.sign, degree |-> tenth_house.degree]

\* POST /generate-chart: geocoding if a coordinate is missing or 0, then
\* set_house_system("W"), then generate_chart; any exception is a 400.
\* used is the house system of the service when generate_chart ran.
GenerateChart ==
    /\ \E request \in MockRequests, geo \in GeocodeReplies, seed \in HashSeeds :
          LET coordinates == get_coordinates(geo)
              birth_info ==
                  IF needs_geocoding(request)
                  THEN [request EXCEPT
                            !.latitude = coordinates.latitude,
                            !.longitude = coordinates.longitude,
                            !.timezone = IF timezone_given(request) THEN @
                                         ELSE <<coordinates.timezone>>]
                  ELSE request
              s == Mock_set_house_system(api.house_system, "W")
              raw_chart == Mock_generate_chart(birth_info, seed)
          IN  IF needs_geocoding(request) /\ coordinates.raised
              THEN api' = [api EXCEPT !.last = [endpoint |-> "/generate-chart",
                                                request |-> request,
                                                status |-> 400, used |-> <<>>]]
              ELSE api' = [house_system |-> s.house_system,
                           last |-> [endpoint |-> "/generate-chart",
                                     request |-> request,
                                     status |-> IF raw_chart.raised THEN 400 ELSE 200,
                                     midheaven |-> IF raw_chart.raised THEN <<>>
                                                   ELSE <<complete_chart_midheaven(raw_chart)>>,
                                     used |-> <<s.house_system>>]]
    /\ UNCHANGED <<tz, pos, chart, now, runs, loop, services>>

NextApi == GetCurrentHouseSystem \/ SetHouseSystem \/ GenerateChart

SpecApi == Init /\ [][NextApi]_vars

\* C17: a house system set through POST /set-house-system persists: a request
\* that is not a successful /set-house-system leaves the setting as it was,
\* GET /current-house-system reports it and /generate-chart runs with it.
C17_HouseSystemPersists ==
    [][(~(api'.last.endpoint = "/set-house-system" /\ api'.last.status = 200))
          => /\ api'.house_system = api.house_system
             /\ api'.last.endpoint = "/current-house-system"
                    => api'.last.code = api.house_system
             /\ (api'.last.endpoint = "/generate-chart" /\ api'.last.used # <<>>)
                    => api'.last.used = <<api.house_system>>]_vars

\* C18: with house system "W", MockAstrologyService.generate_chart returns a
\* chart for every valid request: 13 planets and 12 houses numbered 1..12,
\* every cusp at degree 0, house 1 in the ascendant's sign and house n in the
\* sign n-1 places after it.
C18_MockWholeSignChart ==
    (chart.phase = "done" /\ chart.service = "MockAstrologyService") =>
        /\ ~chart.out.raised
        /\ Len(chart.out.planets) = 13
        /\ DOMAIN chart.out.houses = 1..12
        /\ \A n \in 1..12 :
              /\ chart.out.houses[n].house = n
              /\ chart.out.houses[n].degree = 0
              /\ chart.out.houses[n].sign =
                     zodiac_signs[((SignIndex(chart.out.ascendant.sign) + n - 1) % 12) + 1]

(***************************************************************************)
(* The HTTP APIs of main_production.py and run_production.py over          *)
(* AstrologyCalculationsService.  Dates are kept with their format.        *)
(***************************************************************************)
\* ChartRequest / SimpleChartRequest: birth_date is "YYYY-MM-DD"
ChartRequest(name, date, time, location) ==
    [name |-> name,
     birth_date |-> [format |-> "YYYY-MM-DD", parts |-> date],
     birth_time |-> [hour |-> time[1], minute |-> time[2]],
     birth_location |-> location]

\* convert_date_format: "YYYY-MM-DD" to "DD/MM/YYYY"
convert_date_format(date_str) ==
    [format |-> "DD/MM/YYYY",
     parts |-> <<date_str.parts[3], date_str.parts[2], date_str.parts[1]>>]

\* BirthInfoRequest.validate_date: the first format that parses, returned as
\* ISO year-month-day
validate_date(v) ==
    IF v.format = "YYYY-MM-DD"
    THEN [year |-> v.parts[1], month |-> v.parts[2], day |-> v.parts[3]]
    ELSE [year |-> v.parts[3], month |-> v.parts[2], day |-> v.parts[1]]

\* BirthInfoRequest(...) as both endpoints build it from the request and the
\* geocoded coordinates
http_birth_info(request, coordinates) ==
    [name |-> request.name,
     date |-> validate_date(convert_date_format(request.birth_date)),
     time |-> request.birth_time,
     latitude |-> coordinates.latitude,
     longitude |-> coordinates.longitude,
     location |-> request.birth_location,
     timezone |-> <<coordinates.timezone>>]

\* the placements of main_production.generate_chart: the house from the
\* sign, retrograde from getattr(planet, 'retrograde', False)
main_production_placements(raw_chart) ==
    LET whole_sign_houses == determine_whole_sign_houses(raw_chart.ascendant.sign)
    IN  [k \in DOMAIN raw_chart.planets |->
            LET planet == raw_chart.planets[k]
            IN  [planet |-> planet.name,
                 sign |-> planet.sign,
                 degree |-> planet.degree,
                 exact_degree |-> format_degree(planet.degree),
                 house |-> IF planet.sign \in DOMAIN whole_sign_houses
                           THEN whole_sign_houses[planet.sign] ELSE 0,
                 retrograde |-> IF "retrograde" \in DOMAIN planet
                                THEN planet.retrograde ELSE FALSE]]

\* the placements of run_production.generate_chart: retrograde from
\* getattr(planet, 'retro', False)
run_production_placements(raw_chart) ==
    LET whole_sign_houses == determine_whole_sign_houses(raw_chart.ascendant.sign)
    IN  [k \in DOMAIN raw_chart.planets |->
            LET planet == raw_chart.planets[k]
            IN  [planet |-> planet.name,
                 sign |-> planet.sign,
                 degree |-> planet.degree,
                 exact_degree |-> free_format_exact_degree(planet.degree),
                 house |-> IF planet.sign \in DOMAIN whole_sign_houses
                           THEN whole_sign_houses[planet.sign] ELSE 0,
                 retrograde |-> IF "retro" \in DOMAIN planet
                                THEN planet.retro ELSE FALSE]]

\* main_production.generate_chart after the raw chart: the Midheaven is the
\* tenth sign from the rising sign at 15 degrees
main_production_response(request, coordinates, raw_chart) ==
    LET rising_sign == raw_chart.ascendant.sign
        rising_index == SignIndex(rising_sign)
        mc_sign_index == (rising_index + 9) % 12
    IN  [status |-> 200,
         name |-> request.name,
         house_system |-> "Whole Sign",
         ascendant |-> [sign |-> raw_chart.ascendant.sign,
                        degree |-> raw_chart.ascendant.degree,
                        exact_degree |-> format_degree(raw_chart.ascendant.degree)],
         midheaven |-> [sign |-> zodiac_signs[mc_sign_index + 1],
                        degree |-> 15 * U,
                        exact_degree |-> [deg |-> 15, min |-> 0, sec |-> 0,
                                          mark |-> "DEGREE SIGN"]],
         rising_sign |-> rising_sign,
         placements |-> main_production_placements(raw_chart),
         generated_at |-> now,
         source |-> "Swiss Ephemeris with Whole Sign Houses"]

\* run_production.generate_chart after the raw chart: the Midheaven is the
\* raw chart's, with the whole-sign house of its sign
run_production_response(request, coordinates, raw_chart) ==
    LET rising_sign == raw_chart.ascendant.sign
        whole_sign_houses == determine_whole_sign_houses(rising_sign)
        asc_degree == raw_chart.ascendant.degree
        mc_sign == raw_chart.midheaven.sign
        mc_degree == raw_chart.midheaven.degree
    IN  [status |-> 200,
         name |-> request.name,
         house_system |-> "Whole Sign",
         ascendant |-> [sign |-> rising_sign,
                        degree |-> asc_degree,
                        exact_degree |-> free_format_exact_degree(asc_degree)],
         midheaven |-> [sign |-> mc_sign,
                        degree |-> mc_degree,
                        house |-> whole_sign_houses[mc_sign],
                        exact_degree |-> free_format_exact_degree(mc_degree)],
         rising_sign |-> rising_sign,
         placements |-> run_production_placements(raw_chart),
         generated_at |-> now,
         source |-> "Swiss Ephemeris with Whole Sign Houses"]

HttpRequests ==
    {ChartRequest("Mia", <<1974, 11, 22>>, <<19, 10>>, L_adelaide),
     ChartRequest("Paul", <<1960, 6, 1>>, <<9, 0>>, L_rome),
     ChartRequest("Ann", <<2020, 3, 31>>, <<0, 10>>, L_new_york)}

McSamples == {0, Arc(315, 0), Arc(345, 0), 360 * U - 1}

\* the baseline with both angles varied, or with the angle query failing
HttpEphemerides ==
    {[Baseline EXCEPT !.houses = [fail |-> FALSE, asc |-> a, mc |-> m]] :
        a \in AscSamples, m \in McSamples}
        \cup {[Baseline EXCEPT !.houses = [fail |-> TRUE, asc |-> 0, mc |-> 0]]}

\* one exchange of an endpoint: what it was given, the chart the service
\* returned to it, and what it answered
Exchanged(endpoint, request, swe, raw_chart, response) ==
    [phase |-> "done", service |-> endpoint, in |-> request, swe |-> swe,
     raw |-> raw_chart, out |-> response]

\* POST /generate-chart of main_production.py: geocoding failure is a 400, a
\* failure of chart generation a 500
MainProductionGenerateChart ==
    /\ chart.phase = "idle"
    /\ \E request \in HttpRequests, geo \in GeocodeReplies, swe \in HttpEphemerides :
          LET coordinates == get_coordinates(geo)
              raw_chart == AstrologyCalculations_generate_chart(
                               http_birth_info(request, coordinates), swe,
                               HandlerImportable)
          IN  chart' = Exchanged("main_production", request, swe,
                           IF coordinates.raised THEN Raised("Geocoding failed")
                           ELSE raw_chart,
                           IF coordinates.raised THEN [status |-> 400]
                           ELSE IF raw_chart.raised THEN [status |-> 500]
                           ELSE main_production_response(request, coordinates, raw_chart))
    /\ UNCHANGED <<tz, pos, now, runs, api, loop, services>>

\* POST /generate-chart of run_production.py: every failure is a 500
RunProductionGenerateChart ==
    /\ chart.phase = "idle"
    /\ \E request \in HttpRequests, geo \in GeocodeReplies, swe \in HttpEphemerides :
          LET coordinates == get_coordinates(geo)
              raw_chart == AstrologyCalculations_generate_chart(
                               http_birth_info(request, coordinates), swe,
                               HandlerImportable)
          IN  chart' = Exchanged("run_production", request, swe,
                           IF coordinates.raised THEN Raised("Geocoding failed")
                           ELSE raw_chart,
                           IF coordinates.raised \/ raw_chart.raised THEN [status |-> 500]
                           ELSE run_production_response(request, coordinates, raw_chart))
    /\ UNCHANGED <<tz, pos, now, runs, api, loop, services>>

NextHttp == MainProductionGenerateChart \/ RunProductionGenerateChart \/ ChartDone

SpecHttp == Init /\ [][NextHttp]_vars

\* C19: the Midheaven of every chart response has the sign and the
\* degree-in-sign of the provider's midheaven longitude for that request
\* (sign = floor(mc / 30), degree = mc mod 30).
C19_MidheavenFromProvider ==
    (chart.phase = "done" /\ chart.out.status = 200) =>
        /\ chart.out.midheaven.sign = zodiac_signs[(chart.swe.houses.mc \div (30 * U)) + 1]
        /\ chart.out.midheaven.degree = chart.swe.houses.mc % (30 * U)

\* the chart services that ask the time resolver
ResolverServices ==
    {"AstrologyCalculationsService", "EnhancedAstrologyCalculationsService"}

ApproximationMethods == {"coordinate_approximation", "longitude_approximation"}

\* the resolver fell back to an approximation for the request of the chart
LowConfidenceTimezone == ChartResolved.timezone_info.method \in ApproximationMethods

\* the returned chart carries the resolution method as a warning
ChartTimezoneWarning ==
    /\ "timezone_info" \in DOMAIN chart.out
    /\ chart.out.timezone_info \in ApproximationMethods

\* C20: the chart returned for a request carries the low-confidence timezone
\* metadata exactly when the resolver selected the coordinate or longitude
\* approximation for it; with the historical table it carries no warning.
C20_LowConfidenceCarried ==
    (ChartReturned /\ chart.service \in ResolverServices) =>
        (LowConfidenceTimezone <=> ChartTimezoneWarning)

(***************************************************************************)
(* Specification of chart assembly statement by statement: generate_chart  *)
(* of the three services that return charts, one helper call per step.     *)
(* log lists the helper calls made so far.                                 *)
(***************************************************************************)
StageServices ==
    {"AstrologyCalculationsService", "EnhancedAstrologyCalculationsService",
     "WholeSignAstrologyService"}

\* the helper calls of generate_chart in the order of the statements
generate_chart_statements(service) ==
    CASE service = "AstrologyCalculationsService" ->
             <<"julian_day", "basic_planets", "lunar_nodes", "chiron", "angles",
               "houses", "assign_planets">>
      [] service = "EnhancedAstrologyCalculationsService" ->
             <<"julian_day", "angles", "basic_planets", "lunar_nodes", "chiron",
               "houses", "assign_planets">>
      [] service = "WholeSignAstrologyService" ->
             <<"julian_day", "angles", "basic_planets", "lunar_nodes", "chiron",
               "houses", "assign_planets", "midheaven_house">>

\* the statement raises out of generate_chart: the node and Chiron helpers
\* are wrapped in their own try/except, the others are not
statement_raises(service, statement, birth_info, swe) ==
    CASE statement = "julian_day" ->
             (CASE service = "AstrologyCalculationsService" ->
                       AstrologyCalculations_calculate_julian_day(birth_info,
                                                                  HandlerImportable).raised
                [] service = "EnhancedAstrologyCalculationsService" ->
                       Enhanced_calculate_julian_day_with_timezone(birth_info).raised
                [] OTHER -> WholeSign_calculate_julian_day_accurate(birth_info).raised)
      [] statement = "angles" -> calculate_ascendant_and_midheaven(swe).raised
      [] statement = "basic_planets" -> \E i \in 1..10 : swe.calc[basic_planets[i]].fail
      [] OTHER -> FALSE

\* the stage of the spec a helper call belongs to: 1 Resolve, 2 Query angles,
\* 3 Query bodies, 4 Derive
StageOf(statement) ==
    CASE statement = "julian_day" -> 1
      [] statement = "angles" -> 2
      [] statement \in {"basic_planets", "lunar_nodes", "chiron"} -> 3
      [] OTHER -> 4

StageInputs ==
    {<<BaseRequest, e>> : e \in FailureEphemerides}
        \cup {<<r, Baseline>> : r \in RunRequests}

\* generate_chart is entered
BeginChart ==
    /\ chart.phase = "idle"
    /\ \E service \in StageServices, inp \in StageInputs :
          chart' = [phase |-> "running", service |-> service, in |-> inp[1],
                    swe |-> inp[2], pc |-> 1, log |-> <<>>]
    /\ UNCHANGED <<tz, pos, now, runs, api, loop, services>>

\* the next statement runs; if it raises, generate_chart raises
StepChart ==
    /\ chart.phase = "running"
    /\ chart.pc <= Len(generate_chart_statements(chart.service))
    /\ LET statement == generate_chart_statements(chart.service)[chart.pc]
       IN  IF statement_raises(chart.service, statement, chart.in, chart.swe)
           THEN chart' = [phase |-> "done", service |-> chart.service, in |-> chart.in,
                          swe |-> chart.swe, log |-> Append(chart.log, statement),
                          out |-> Raised("Failed to generate astrology chart")]
           ELSE chart' = [chart EXCEPT !.pc = @ + 1, !.log = Append(@, statement)]
    /\ UNCHANGED <<tz, pos, now, runs, api, loop, services>>

\* return AstrologyResponse(...)
ReturnChart ==
    /\ chart.phase = "running"
    /\ chart.pc > Len(generate_chart_statements(chart.service))
    /\ chart' = [phase |-> "done", service |-> chart.service, in |-> chart.in,
                 swe |-> chart.swe, log |-> chart.log,
                 out |-> service_generate_chart(chart.service, chart.in, chart.swe,
                                                [a |-> 1, b |-> 0])]
    /\ UNCHANGED <<tz, pos, now, runs, api, loop, services>>

NextStages == BeginChart \/ StepChart \/ ReturnChart \/ ChartDone

SpecStages == Init /\ [][NextStages]_vars

\* C22: chart assembly goes through Resolve, Query angles, Query bodies,
\* Derive in this order and never back: no body is queried before the angle
\* query has completed and no house is assigned before the ascendant is known.
C22_StagesInOrder ==
    chart.phase \in {"running", "done"} =>
        /\ \A i, j \in 1..Len(chart.log) :
              i < j => StageOf(chart.log[i]) <= StageOf(chart.log[j])
        /\ \A j \in 1..Len(chart.log) :
              StageOf(chart.log[j]) >= 3
                  => \E i \in 1..(j - 1) : chart.log[i] = "angles"

(***************************************************************************)
(* Specification of the server process: uvicorn runs one event loop, every *)
(* /generate-chart request is a task of it, and a task keeps the loop      *)
(* until it suspends at an await or returns.                               *)
(***************************************************************************)
MaxRequests == 3

\* the calls of the /generate-chart handler and of generate_chart below it:
\* provider marks a call into the ephemeris library, await a call written
\* with await, awaited whether the called coroutine itself waits for
\* something (get_coordinates calls the blocking requests.get, generate_chart
\* has no await in its body)
handler_statements ==
    << [call |-> "geocoding_service.get_coordinates", provider |-> FALSE,
        await |-> TRUE, awaited |-> FALSE],
       [call |-> "astrology_service.generate_chart", provider |-> FALSE,
        await |-> TRUE, awaited |-> FALSE],
       [call |-> "swe.julday", provider |-> TRUE, await |-> FALSE, awaited |-> FALSE],
       [call |-> "swe.calc_ut(planets)", provider |-> TRUE, await |-> FALSE,
        awaited |-> FALSE],
       [call |-> "swe.calc_ut(TRUE_NODE)", provider |-> TRUE, await |-> FALSE,
        awaited |-> FALSE],
       [call |-> "swe.calc_ut(CHIRON)", provider |-> TRUE, await |-> FALSE,
        awaited |-> FALSE],
       [call |-> "swe.houses", provider |-> TRUE, await |-> FALSE, awaited |-> FALSE],
       [call |-> "return", provider |-> FALSE, await |-> FALSE, awaited |-> FALSE] >>

suspends_at_provider(statement) == statement.await \/ statement.provider

\* the task gives the loop back at this statement
suspends(statement) == statement.await /\ statement.awaited

\* a request arrives: the server creates a task for its handler
Accept ==
    /\ Len(loop.tasks) < MaxRequests
    /\ loop' = [loop EXCEPT !.tasks = Append(@, [state |-> "ready", pc |-> 1])]
    /\ UNCHANGED <<tz, pos, chart, now, runs, api, services>>

\* the loop is free and resumes a ready task
Schedule ==
    /\ loop.current = 0
    /\ \E t \in 1..Len(loop.tasks) :
          /\ loop.tasks[t].state = "ready"
          /\ loop' = [loop EXCEPT !.current = t, !.tasks[t].state = "running"]
    /\ UNCHANGED <<tz, pos, chart, now, runs, api, services>>

\* the running task executes its next call, then suspends, returns or goes on
Execute ==
    /\ loop.current # 0
    /\ LET t == loop.current
           statement == handler_statements[loop.tasks[t].pc]
           calls == IF statement.provider
                    THEN Append(loop.calls, [request |-> t, call |-> statement.call])
                    ELSE loop.calls
       IN  IF loop.tasks[t].pc = Len(handler_statements)
           THEN loop' = [tasks |-> [loop.tasks EXCEPT ![t].state = "finished"],
                         current |-> 0, calls |-> calls]
           ELSE IF suspends(statement)
           THEN loop' = [tasks |-> [loop.tasks EXCEPT ![t].state = "ready",
                                                      ![t].pc = @ + 1],
                         current |-> 0, calls |-> calls]
           ELSE loop' = [tasks |-> [loop.tasks EXCEPT ![t].pc = @ + 1],
                         current |-> t, calls |-> calls]
    /\ UNCHANGED <<tz, pos, chart, now, runs, api, services>>

\* all responses are sent
LoopDone ==
    /\ Len(loop.tasks) = MaxRequests
    /\ \A t \in 1..Len(loop.tasks) : loop.tasks[t].state = "finished"
    /\ loop' = [tasks |-> <<>>, current |-> 0, calls |-> <<>>]
    /\ UNCHANGED <<tz, pos, chart, now, runs, api, services>>

NextLoop == Accept \/ Schedule \/ Execute \/ LoopDone

SpecLoop == Init /\ [][NextLoop]_vars

\* C23: the provider calls of different requests in one server process never
\* interleave: between two provider calls of one request there is no
\* provider call of another request.
C23_ProviderCallsNotInterleaved ==
    \A i, j, k \in 1..Len(loop.calls) :
        (i < j /\ j < k /\ loop.calls[i].request = loop.calls[k].request)
            => loop.calls[j].request = loop.calls[i].request

\* two requests are in flight, one in the middle of its provider calls, and
\* another request has already made its calls
C23_Witness ==
    /\ loop.current # 0
    /\ \E t \in 1..Len(loop.tasks) : loop.tasks[t].state = "ready"
    /\ \E i \in 1..Len(loop.calls) :
          /\ loop.calls[i].request = loop.current
          /\ loop.calls[i].call = "swe.julday"
    /\ \E i \in 1..Len(loop.calls) : loop.calls[i].request # loop.current
    /\ loop.tasks[loop.current].pc <= 7

(***************************************************************************)
(* The two ways of placing the Descendant and the Imum Coeli               *)
(***************************************************************************)
find_midheaven_house_default(midheaven, ascendant) == 10

\* WholeSignAstrologyService._find_midheaven_house
find_midheaven_house(midheaven, ascendant) ==
    LET rising_sign_index == SignIndex(ascendant.sign)
        mc_sign_index == SignIndex(midheaven.sign)
    IN  ((mc_sign_index - rising_sign_index) % 12) + 1

\* main.py: next((h for h in houses if h.house == n), None).sign, the
\* sign of whole-sign house n counted from the rising sign
house_cusp_sign(houses, n) ==
    LET found == {h \in DOMAIN houses : houses[h].house = n}
    IN  IF found = {} THEN "Unknown"
        ELSE houses[CHOOSE h \in found : \A g \in found : h <= g].sign

\* the opposite ecliptic point, interpreted on its own
opposite_point_sign(longitude) == sign_and_degree(Opposite(longitude)).sign

\* both angles at the start, the middle and the end of every sign
AngleLons == {s * 30 * U + f : s \in 0..11, f \in {0, 15 * U, 30 * U - 1}}

\* the Descendant and the Imum Coeli of one pair of angles by both methods
PlaceAngles ==
    /\ pos.phase = "idle"
    /\ \E asc \in AngleLons, mc \in AngleLons :
          LET angles == calculate_ascendant_and_midheaven(
                            [houses |-> [fail |-> FALSE, asc |-> asc, mc |-> mc]])
              houses == calculate_whole_sign_houses(angles.ascendant)
          IN  pos' = [phase |-> "angles", ascendant |-> asc, midheaven |-> mc,
                      mc_house |-> find_midheaven_house(angles.midheaven,
                                                        angles.ascendant),
                      opposite |-> [descendant |-> opposite_point_sign(asc),
                                    imum_coeli |-> opposite_point_sign(mc)],
                      offset |-> [descendant |-> house_cusp_sign(houses, 7),
                                  imum_coeli |-> house_cusp_sign(houses, 4)]]
    /\ UNCHANGED <<tz, chart, now, runs, api, loop, services>>

NextAngles == PlaceAngles \/ PosDone

SpecAngles == Init /\ [][NextAngles]_vars

\* C24 as stated: the two methods give different Descendant and Imum Coeli
\* signs whenever the Midheaven's whole-sign house is not 10, and the same
\* signs when it is 10.
C24_MethodsDifferUnlessTenth ==
    pos.phase = "angles" =>
        IF pos.mc_house = 10
        THEN /\ pos.opposite.descendant = pos.offset.descendant
             /\ pos.opposite.imum_coeli = pos.offset.imum_coeli
        ELSE /\ pos.opposite.descendant # pos.offset.descendant
             /\ pos.opposite.imum_coeli # pos.offset.imum_coeli

\* C24 amended: the two methods always give the same Descendant sign; they
\* give the same Imum Coeli sign exactly when the Midheaven's whole-sign
\* house is 10.
C24_ImumCoeliAgreesIffTenth ==
    pos.phase = "angles" =>
        /\ pos.opposite.descendant = pos.offset.descendant
        /\ (pos.opposite.imum_coeli = pos.offset.imum_coeli) <=> (pos.mc_house = 10)

\* a Midheaven in the ninth whole-sign house: the Imum Coeli signs differ
C24_Witness ==
    /\ pos.phase = "angles"
    /\ pos.mc_house = 9
    /\ pos.opposite.imum_coeli # pos.offset.imum_coeli
    /\ pos.opposite.descendant = pos.offset.descendant

(***************************************************************************)
(* Houses of the charts of AstrologyCalculationsService (checked under     *)
(* Spec)                                                                   *)
(***************************************************************************)
AstrologyCalculationsReturned ==
    ChartReturned /\ chart.service = "AstrologyCalculationsService"

\* C25: in every chart returned by AstrologyCalculationsService the 12 houses
\* carry 12 distinct signs, a rotation of the zodiac starting at the rising
\* sign; the house entry numbered p.house has the sign of placement p; the
\* house the API layer recomputes with determine_whole_sign_houses equals
\* p.house and is never the default 0.
C25_HousesConsistent ==
    AstrologyCalculationsReturned =>
        LET houses == chart.out.houses
            rising == SignIndex(chart.out.ascendant.sign)
            recomputed == main_production_placements(chart.out)
        IN  /\ DOMAIN houses = 1..12
            /\ Cardinality({houses[h].sign : h \in 1..12}) = 12
            /\ \A h \in 1..12 :
                  /\ houses[h].house = h
                  /\ houses[h].sign = zodiac_signs[((rising + h - 1) % 12) + 1]
            /\ \A k \in 1..Len(chart.out.planets) :
                  LET p == chart.out.planets[k]
                  IN  /\ p.house \in 1..12
                      /\ houses[p.house].sign = p.sign
                      /\ recomputed[k].house = p.house
                      /\ recomputed[k].house # 0

\* a returned chart with a placement in a sign that comes before the rising
\* sign in the zodiac, in a house counted past Pisces
C25_Witness ==
    /\ AstrologyCalculationsReturned
    /\ \E k \in 1..Len(chart.out.planets) :
          /\ SignIndex(chart.out.planets[k].sign) < SignIndex(chart.out.ascendant.sign)
          /\ chart.out.planets[k].house > 1
          /\ chart.out.houses[chart.out.planets[k].house].sign = chart.out.planets[k].sign

(***************************************************************************)
(* The lunar nodes of returned charts (checked under Spec)                 *)
(***************************************************************************)
\* the placements of the returned chart that carry this name
PlacementsNamed(name) ==
    {k \in 1..Len(ChartPlacements) : PlacementName(ChartPlacements[k]) = name}

IsLetter(c) == \E k \in 1..26 : LowerChars[k] = c

\* the phrase stands in the lower-cased label as words of its own
NamesAsSuch(location_lower, phrase) ==
    \E i \in 0..(Len(location_lower) - Len(phrase)) :
        /\ SubSeq(location_lower, i + 1, i + Len(phrase)) = phrase
        /\ (i = 0 \/ ~IsLetter(location_lower[i]))
        /\ (i + Len(phrase) = Len(location_lower)
               \/ ~IsLetter(location_lower[i + Len(phrase) + 1]))

\* the keys of the cities the label names as such
NamedCities(location_lower) ==
    {city_mappings[i][2] : i \in {j \in 1..Len(city_mappings) :
                                     NamesAsSuch(location_lower, city_mappings[j][1])}}

\* the keys of the listed states and state abbreviations the label names
NamedStates(location_lower) ==
    {m[2] : m \in {n \in {<<S_south_australia, "adelaide">>, <<S_sa, "adelaide">>,
                          <<S_new_south_wales, "sydney">>, <<S_nsw, "sydney">>,
                          <<S_victoria, "melbourne">>,
                          <<S_western_australia, "perth">>, <<S_wa, "perth">>} :
                      NamesAsSuch(location_lower, n[1])}}

\* C27: a label is resolved through the historical table only if it names a
\* city of the table or a listed state or state abbreviation as such; every
\* other label, one with the letters of an abbreviation inside a longer word
\* included, normalizes to the empty key and is resolved by coordinate
\* approximation; a label naming a city resolves to that city's key.
C27_NamedPlacesOnly ==
    TzResolved =>
        LET location_lower == Lower(tz.in.location)
            named == NamedCities(location_lower) \cup NamedStates(location_lower)
            location_key == normalize_location_name(tz.in.location)
        IN  /\ named = {} =>
                  /\ location_key = ""
                  /\ TzInfo.method = "coordinate_approximation"
            /\ NamedCities(location_lower) # {}
                  => location_key \in NamedCities(location_lower)

(***************************************************************************)
(* The date given to the Julian-day conversion (checked under Spec)        *)
(***************************************************************************)
\* C28: the (year, month, utc_day) triple that chart assembly hands to the
\* Julian-day conversion is a valid calendar date, the UTC date of the birth
\* instant: the birth date, the day before or the day after it, also across
\* a month or year boundary.
C28_ValidUtcDate ==
    (chart.phase = "done" /\ chart.julian_day # <<>>) =>
        LET jd == chart.julian_day[1]
            handed == [year |-> jd.year, month |-> jd.month, day |-> jd.day]
        IN  /\ jd.month \in 1..12
            /\ jd.day \in 1..DaysInMonth(jd.year, jd.month)
            /\ handed \in {chart.in.date, PrevDay(chart.in.date), NextDay(chart.in.date)}

(***************************************************************************)
(* The placements of the HTTP responses (checked under SpecHttp)           *)
(***************************************************************************)
\* C29: the API layer passes the engine's result through unchanged: every
\* placement of a /generate-chart response has the retro flag, the sign and
\* the degree the chart service computed for that body.
C29_PlacementsPassedThrough ==
    (chart.phase = "done" /\ chart.out.status = 200) =>
        /\ Len(chart.out.placements) = Len(chart.raw.planets)
        /\ \A k \in 1..Len(chart.raw.planets) :
              /\ chart.out.placements[k].planet = chart.raw.planets[k].name
              /\ chart.out.placements[k].retrograde = chart.raw.planets[k].retro
              /\ chart.out.placements[k].sign = chart.raw.planets[k].sign
              /\ chart.out.placements[k].degree = chart.raw.planets[k].degree

(***************************************************************************)
(* Specification of the house system setting of the two services that      *)
(* validate it: any sequence of set_house_system and get_house_system       *)
(* calls on one object of each class. stored remembers the argument of the *)
(* most recent call that returned normally.                                *)
(***************************************************************************)
AstrologyService_set_house_system_early(current, house_system) ==
    IF house_system \notin valid_systems
    THEN [raised |-> TRUE, what |-> "ValueError", house_system |-> house_system]
    ELSE [raised |-> FALSE, house_system |-> house_system]

\* AstrologyService.set_house_system (the second definition in the class
\* body, which replaces the first; both read the same)
AstrologyService_set_house_system(current, house_system) ==
    IF house_system \notin valid_systems
    THEN [raised |-> TRUE, what |-> "ValueError", house_system |-> current]
    ELSE [raised |-> FALSE, house_system |-> house_system]

\* get_house_system of both classes
get_house_system(self) == self.house_system

\* set_house_system(house_system) on one of the objects
ServiceSetHouseSystem ==
    /\ \E s \in DOMAIN services.objects, house_system \in HouseSystemRequests :
          LET self == services.objects[s]
              r == IF s = "MockAstrologyService"
                   THEN Mock_set_house_system(self.house_system, house_system)
                   ELSE AstrologyService_set_house_system(self.house_system, house_system)
          IN  services' =
                  [objects |-> [services.objects EXCEPT
                                   ![s] = [house_system |-> r.house_system,
                                           stored |-> IF r.raised THEN self.stored
                                                      ELSE <<house_system>>]],
                   last |-> [call |-> "set_house_system", service |-> s,
                             argument |-> house_system,
                             before |-> self.house_system,
                             raised |-> IF r.raised THEN <<r.what>> ELSE <<>>]]
    /\ UNCHANGED <<tz, pos, chart, now, runs, api, loop>>

\* get_house_system() on one of the objects
ServiceGetHouseSystem ==
    /\ \E s \in DOMAIN services.objects :
          services' = [services EXCEPT
                          !.last = [call |-> "get_house_system", service |-> s,
                                    returned |-> get_house_system(services.objects[s])]]
    /\ UNCHANGED <<tz, pos, chart, now, runs, api, loop>>

NextServices == ServiceSetHouseSystem \/ ServiceGetHouseSystem

SpecServices == Init /\ [][NextServices]_vars

\* C30: on MockAstrologyService and AstrologyService, set_house_system with a
\* code outside the 13 valid codes raises ValueError and leaves the stored
\* house system unchanged, and with a valid code stores exactly that code;
\* after any sequence of calls get_house_system returns "W" or the argument
\* of the most recent successful call.
C30_HouseSystemValidated ==
    /\ \A s \in DOMAIN services.objects :
          get_house_system(services.objects[s]) =
              IF services.objects[s].stored = <<>> THEN "W"
              ELSE services.objects[s].stored[1]
    /\ services.last.call = "set_house_system" =>
          IF services.last.argument \in
                 {"P", "K", "O", "R", "C", "A", "V", "W", "X", "H", "T", "B", "M"}
          THEN /\ services.last.raised = <<>>
               /\ services.objects[services.last.service].house_system
                      = services.last.argument
          ELSE /\ services.last.raised = <<"ValueError">>
               /\ services.objects[services.last.service].house_system
                      = services.last.before
    /\ services.last.call = "get_house_system" =>
          services.last.returned
              = get_house_system(services.objects[services.last.service])

\* an AstrologyService set to Placidus has just rejected an unknown code
C30_Witness ==
    /\ services.last.call = "set_house_system"
    /\ services.last.service = "AstrologyService"
    /\ services.last.argument = "Z"
    /\ services.last.raised = <<"ValueError">>
    /\ services.objects["AstrologyService"].house_system = "P"
    /\ services.objects["AstrologyService"].stored = <<"P">>

=============================================================================
